---- MODULE Spec2Model ----
(***************************************************************************)
(* Silent-signing transaction pipeline of the Cronos DeFi front end:       *)
(* transferCRO, swapCROManual / swapTokenManual (signAndSendRaw),          *)
(* executeBridge / executeBridgeNative, the x402 payment-header builder    *)
(* and the swap quote arithmetic.                                          *)
(*                                                                         *)
(* Every operation is a chain of awaits.  Each await (or run of awaits     *)
(* that touches no shared state) is one action; pc[p] is the position of   *)
(* invocation p in its function.  The wallet provider, the RPC node and    *)
(* the bridge quote API are the environment: their answers are drawn from  *)
(* small sets inside the action that awaits them.                          *)
(***************************************************************************)
EXTENDS Integers, Sequences, FiniteSets, TLC

(***************************************************************************)
(* Program constants                                                       *)
(***************************************************************************)
CRONOS_MAINNET_CHAIN_ID == 25
CRONOS_TESTNET_CHAIN_ID == 338
CRONOS_CHAIN_ID == 25

Networks == {"mainnet", "testnet"}
ChainIds == {CRONOS_MAINNET_CHAIN_ID, CRONOS_TESTNET_CHAIN_ID}

getChainId(net) ==
  IF net = "testnet" THEN CRONOS_TESTNET_CHAIN_ID ELSE CRONOS_MAINNET_CHAIN_ID

\* getRpcUrl: the RPC endpoint is identified by the chain it serves.
getRpcUrl(net) ==
  IF net = "testnet" THEN CRONOS_TESTNET_CHAIN_ID ELSE CRONOS_MAINNET_CHAIN_ID

(***************************************************************************)
(* Bounds of the model                                                     *)
(***************************************************************************)
AmountWei == 1000      \* the value of a transfer / native swap, in wei
MaxGasPrice == 2       \* gas prices reported by a node: 1..MaxGasPrice

GasPrices == 1..MaxGasPrice

(***************************************************************************)
(* Invocations.  The chat action handler and a page handler can be in      *)
(* flight at the same time on the same embedded wallet.                    *)
(***************************************************************************)
Callers == {"chat", "page"}

(***************************************************************************)
(* Addresses.  An address is its 20 bytes (id) and the letter case of its  *)
(* hex digits; toLowerCase changes the case only.                          *)
(***************************************************************************)
NoAddress == [id |-> "none", case |-> "lower"]
Addr(i, c) == [id |-> i, case |-> c]
toLowerCase(a) == [a EXCEPT !.case = "lower"]

\* A string that is not 0x followed by 40 hex digits, and viem isAddress.
Malformed == [id |-> "malformed", case |-> "lower"]
isAddress(a) == a.id \notin {"malformed", "none"}

\* The wallets handed to the operation modules.  walletClientType "" is an
\* embedded wallet whose type Privy leaves undefined.
Wallets ==
  { [walletClientType |-> "privy",    address |-> Addr("W", "checksum")],
    [walletClientType |-> "privy",    address |-> Addr("W", "lower")],
    [walletClientType |-> "",         address |-> Addr("W", "checksum")],
    [walletClientType |-> "metamask", address |-> Addr("W", "checksum")],
    [walletClientType |-> "privy",    address |-> NoAddress] }

(***************************************************************************)
(* Signatures returned by secp256k1_sign: 0x + r (64 hex) + s (64 hex) +   *)
(* recovery marker (2 hex).  r and s are represented by the address they   *)
(* recover to under the right parity (signer); short is a string of fewer  *)
(* than 132 characters.                                                    *)
(***************************************************************************)
RecoveryBytes == {0, 1, 27, 28, 29}
Signatures ==
  { [short |-> TRUE, byte |-> 0, signer |-> "W"] } \cup
  { [short |-> FALSE, byte |-> b, signer |-> "W"] : b \in RecoveryBytes } \cup
  { [short |-> FALSE, byte |-> b, signer |-> "X"] : b \in {0, 28} }
NoSignature == [short |-> TRUE, byte |-> 0, signer |-> "none"]

\* viem recoverAddress({hash, signature: {r, s, v}}): checksummed address of
\* the key behind r, s; defined for v in {27, 28} only.
recoverAddress(sig, v) ==
  IF v \in {27, 28} THEN Addr(sig.signer, "checksum") ELSE NoAddress

(***************************************************************************)
(* Transactions                                                            *)
(***************************************************************************)
\* Call data: the function called (or the opaque hex string a quote service
\* supplied: "", "0x", "0xcalldata"), and the swap arguments when it is a
\* router call.
CallData(fn, minOut, path) == [fn |-> fn, minOut |-> minOut, path |-> path]
NoData == CallData("", 0, << >>)

NoTx ==
  [kind |-> "none", chainId |-> 0, nonce |-> 0, gas |-> 0, gasPrice |-> 0,
   value |-> 0, data |-> NoData, rpc |-> 0, v |-> 0, signer |-> "none"]

LegacyTx(kind, chainId, nonce, gas, gasPrice, value, data, rpc) ==
  [kind |-> kind, chainId |-> chainId, nonce |-> nonce, gas |-> gas,
   gasPrice |-> gasPrice, value |-> value, data |-> data, rpc |-> rpc,
   v |-> 0, signer |-> "none"]

\* serializeTransaction(tx, {r, s, v}): the signed transaction.
\* What the gas queries made for one transaction answered: the gas of the
\* prepared request or of estimateGas (estimate "failed" when the call threw,
\* "none" when no such query is made; gas 0 when there is no value) and the
\* result of publicClient.getGasPrice.
Fees(estimate, gas, gasPrice) ==
  [estimate |-> estimate, gas |-> gas, gasPrice |-> gasPrice]
NoFees == Fees("none", 0, 0)

Signed(t, sig, v) == [t EXCEPT !.v = v, !.signer = sig.signer]

VARIABLES
  wallet,        \* the ConnectedWallet passed to the operation modules
  walletChain,   \* chain id the wallet provider is currently on
  txCount,       \* per chain: mined transactions of the sender
  pending,       \* per chain: nonces accepted into the pool, not yet mined
  op,            \* per invocation: the function it runs
  pc,            \* per invocation: position in that function
  network,       \* per invocation: the network parameter
  params,        \* per invocation: recipient, fromToken, toToken, slippage
  quote,         \* per invocation: path, amountOut and minOut of the quote
  allowance,     \* per invocation: the router allowance read by the token swap
  nextNonce,     \* per invocation: the nonce local of the swap functions
  callData,      \* per invocation: call data the bridge quote service gave
  headers,       \* per invocation: headers handed to onPaymentComplete
  receipt,       \* per invocation: outcome of the wait for the bridge receipt
  rejection,     \* per invocation: the node error transferCRO caught
  swapPage,      \* the swap page: inputs, quote shown, timer, fetches in flight
  balance,       \* per invocation: result of getBalance
  tx,            \* per invocation: the transaction under construction
  fees,          \* per invocation: what the gas queries for tx answered
  signature,     \* per invocation: what secp256k1_sign returned
  error,         \* per invocation: the error thrown, "" if none
  status,        \* per invocation: status of the returned result
  signLog,       \* per invocation: secp256k1_sign requests made
  sendLog        \* per invocation: sendRawTransaction calls made

vars ==
  << wallet, walletChain, txCount, pending, op, pc, network, params, quote,
     allowance,
     nextNonce, callData, headers, receipt, rejection, swapPage, balance, tx,
     fees, signature, error,
     status, signLog, sendLog >>

shared == << wallet, walletChain, txCount, pending >>

\* The locals that only the swap functions use.
swapLocals == << params, quote, allowance, nextNonce >>

\* The locals that only the bridge page, the payment modal, the transfer's
\* catch block and the swap page's quote display use.
otherLocals == << callData, headers, receipt, rejection, swapPage >>

(***************************************************************************)
(* The RPC node                                                            *)
(***************************************************************************)
\* eth_getTransactionCount(address, 'latest')
LatestCount(chain) == txCount[chain]

RECURSIVE PendingFrom(_, _)
PendingFrom(chain, n) ==
  IF n \in pending[chain] THEN PendingFrom(chain, n + 1) ELSE n

\* eth_getTransactionCount(address, 'pending')
PendingCount(chain) == PendingFrom(chain, txCount[chain])

\* A node takes a raw transaction into its pool only if v carries a valid
\* parity for its own chain and the nonce is neither used nor already pending.
Acceptable(t) ==
  /\ t.v \in {t.chainId * 2 + 35, t.chainId * 2 + 36}
  /\ t.nonce >= txCount[t.chainId]
  /\ t.nonce \notin pending[t.chainId]

NodeErrors ==
  { [code |-> c, message |-> m] :
      c \in {0, -32000},
      m \in {"insufficient funds", "nonce too low", "network", "reverted"} }

\* No node error was caught.
NoNodeError == [code |-> 0, message |-> ""]

\* The words of a node error message that the operation modules look for.
Mentions(message) ==
  CASE message = "insufficient funds" -> {"insufficient funds"}
    [] message = "nonce too low"      -> {"nonce"}
    [] message = "network"            -> {"network"}
    [] OTHER                          -> {}

includes(message, word) == word \in Mentions(message)

(***************************************************************************)
(* Control helpers: an await that resumes at label l, a throw that ends    *)
(* the invocation, a return with a result status.                          *)
(***************************************************************************)
Goto(p, l) ==
  /\ pc' = [pc EXCEPT ![p] = l]
  /\ UNCHANGED << error, status >>

Throw(p, e) ==
  /\ pc' = [pc EXCEPT ![p] = "done"]
  /\ error' = [error EXCEPT ![p] = e]
  /\ status' = [status EXCEPT ![p] = "failed"]

Return(p, s) ==
  /\ pc' = [pc EXCEPT ![p] = "done"]
  /\ status' = [status EXCEPT ![p] = s]
  /\ UNCHANGED error

\* The transaction local and the answers it was built from go out of scope.
ClearTx(p) ==
  /\ tx' = [tx EXCEPT ![p] = NoTx]
  /\ fees' = [fees EXCEPT ![p] = NoFees]

\* The signature local stays in scope while its signed transaction is handed
\* to sendRawTransaction and is dropped when the step ends otherwise.
DropSignatureUnlessSending(p) ==
  signature' = [signature EXCEPT ![p] =
    IF pc'[p] \in {"send", "sendApprove"} THEN @ ELSE NoSignature]

\* provider.request({method: 'secp256k1_sign', params: [hash]}) is logged with
\* the transaction it is for, whether a chain-id pre-flight check preceded it
\* and the chain the wallet is on when asked.
SignRequest(p, preflight) ==
  [kind |-> tx[p].kind, chainId |-> tx[p].chainId, nonce |-> tx[p].nonce,
   data |-> tx[p].data, preflight |-> preflight, activeChain |-> walletChain]

\* publicClient.sendRawTransaction is logged with what identifies the signed
\* transaction handed over and whether the node took it.
SendCall(t, accepted) ==
  [kind |-> t.kind, chainId |-> t.chainId, nonce |-> t.nonce, data |-> t.data,
   v |-> t.v, signer |-> t.signer, accepted |-> accepted]

\* What the node does with an accepted transaction of the sender.
Pool(t) ==
  IF t.signer = "W"
    THEN [pending EXCEPT ![t.chainId] = @ \cup {t.nonce}]
    ELSE pending

(***************************************************************************)
(* Recovery id and EIP-155 v                                               *)
(***************************************************************************)
\* transfer.ts 193-199, execute-bridge.ts 175-181 / 269-275 / 407-413 and the
\* payment modal 205-211: the bytes that do not throw.
ValidRecoveryByte(recoveryByte) ==
  \/ recoveryByte >= 27 /\ recoveryByte <= 28
  \/ recoveryByte = 0 \/ recoveryByte = 1

\* ... and the recovery id they give: 27/28 -> 0/1, 0/1 as is.
StrictRecoveryId(recoveryByte) ==
  IF recoveryByte >= 27 /\ recoveryByte <= 28
    THEN recoveryByte - 27
    ELSE recoveryByte

\* swap.ts 78 (signAndSendRaw): no validation.
LaxRecoveryId(recoveryByte) ==
  IF recoveryByte >= 27 THEN recoveryByte - 27 ELSE recoveryByte

\* The legacy v, without the chain id: what recoverAddress is given.
LegacyV(recoveryId, chainId) == recoveryId + 27

\* transfer.ts 214, swap.ts 79, execute-bridge.ts 184 / 278 / 416 and the
\* payment modal 229.
Eip155V(recoveryId, chainId) == recoveryId + chainId * 2 + 35

\* transfer.ts 45 / swap.ts 301, 540: wallet.walletClientType &&
\* wallet.walletClientType !== 'privy'.
NotPrivy(w) == w.walletClientType # "" /\ w.walletClientType # "privy"

(***************************************************************************)
(* transferCRO                                                             *)
(***************************************************************************)
\* transfer.ts 41-63: destructure the parameters, check the wallet, get the
\* provider.
Transfer_Start(p, net, recipient) ==
  /\ pc[p] = "idle"
  /\ op' = [op EXCEPT ![p] = "transfer"]
  /\ network' = [network EXCEPT ![p] = net]
  /\ params' = [params EXCEPT ![p].recipient = recipient]
  /\ IF NotPrivy(wallet)
       THEN Throw(p, "UnsupportedWallet")
     ELSE IF wallet.address = NoAddress
       THEN Throw(p, "WalletNotConnected")
     ELSE Goto(p, "switchChain")
  /\ UNCHANGED << otherLocals, shared, quote, allowance, nextNonce, balance, tx,
                  fees, signature,
                  signLog, sendLog >>

\* transfer.ts 66-70: await wallet.switchChain(targetChainId).  The switch may
\* take effect, silently not take effect, or be rejected.
Transfer_SwitchChain(p) ==
  /\ op[p] = "transfer" /\ pc[p] = "switchChain"
  /\ \E outcome \in {"switched", "ignored", "rejected"} :
       /\ walletChain' =
            IF outcome = "switched" THEN getChainId(network[p]) ELSE walletChain
       /\ IF outcome = "rejected"
            THEN Throw(p, "SwitchChainFailed")
            ELSE Goto(p, "checkChain")
  /\ UNCHANGED << otherLocals, wallet, txCount, pending, op, network, swapLocals,
                  balance,
                  tx, fees, signature, signLog, sendLog >>

\* transfer.ts 73-77: eth_chainId against targetChainId.
Transfer_CheckChain(p) ==
  /\ op[p] = "transfer" /\ pc[p] = "checkChain"
  /\ IF walletChain # getChainId(network[p])
       THEN Throw(p, "NetworkMismatch")
       ELSE Goto(p, "getBalance")
  /\ UNCHANGED << otherLocals, shared, op, network, swapLocals, balance, tx, fees,
                  signature,
                  signLog, sendLog >>

\* Balances a node may report: around every total cost a transfer can have.
TransferGas == {20000, 21000}
Balances ==
  {0} \cup { AmountWei + g * gp + d :
               g \in TransferGas, gp \in GasPrices, d \in {-1, 0} }

\* transfer.ts 102-107: publicClient.getBalance.
Transfer_GetBalance(p) ==
  /\ op[p] = "transfer" /\ pc[p] = "getBalance"
  /\ \E b \in Balances : balance' = [balance EXCEPT ![p] = b]
  /\ Goto(p, "prepare")
  /\ UNCHANGED << otherLocals, shared, op, network, swapLocals, tx, fees, signature,
                  signLog,
                  sendLog >>

\* transfer.ts 120: prepared.gas || 21000 (0 stands for an absent gas field).
TransferGasLimit(preparedGas) ==
  IF preparedGas # 0 THEN preparedGas ELSE 21000

\* transfer.ts 121-123: the higher of the prepared and the fetched gas price
\* (0 stands for an absent gasPrice field).
TransferGasPrice(preparedGasPrice, fetchedGasPrice) ==
  IF preparedGasPrice # 0 /\ preparedGasPrice > fetchedGasPrice
    THEN preparedGasPrice
    ELSE fetchedGasPrice

\* A funds check that also refuses a balance equal to the total cost.
InsufficientFundsInclusive(bal, value, gas, gasPrice) ==
  bal <= value + gas * gasPrice

\* transfer.ts 130: the client-side funds check.
InsufficientFunds(bal, value, gas, gasPrice) == bal < value + gas * gasPrice

\* transfer.ts 109-150: walletClient.prepareTransactionRequest (nonce with
\* blockTag 'pending' and gas through the wallet provider, so from the chain
\* the wallet is on), publicClient.getGasPrice, the funds check, the legacy
\* transaction record.  tx holds value, gas, gasPrice and nonce from the
\* moment they are computed (lines 102-123), so also when the check throws.
\* The recipient is first looked at here: prepareTransactionRequest is the
\* first call that takes it (line 111), and viem refuses a `to` that is not
\* an address.
Transfer_Prepare(p) ==
  /\ op[p] = "transfer" /\ pc[p] = "prepare"
  /\ \E preparedGas \in {0} \cup TransferGas,
        preparedGasPrice \in {0} \cup GasPrices,
        fetchedGasPrice \in GasPrices :
       LET gas == TransferGasLimit(preparedGas)
           gasPrice == TransferGasPrice(preparedGasPrice, fetchedGasPrice)
           targetChainId == getChainId(network[p])
       IN IF ~isAddress(params[p].recipient)
            THEN Throw(p, "InvalidAddress") /\ UNCHANGED << tx, fees >>
            ELSE /\ tx' = [tx EXCEPT ![p] =
                      LegacyTx("transfer", targetChainId,
                               PendingCount(walletChain), gas, gasPrice,
                               AmountWei, NoData, walletChain)]
                 /\ IF InsufficientFunds(balance[p], AmountWei, gas, gasPrice)
                      THEN Throw(p, "InsufficientFunds") /\ UNCHANGED fees
                      ELSE /\ Goto(p, "sign")
                           /\ fees' = [fees EXCEPT ![p] =
                                Fees(IF preparedGas # 0 THEN "ok" ELSE "none",
                                     preparedGas, fetchedGasPrice)]
  /\ UNCHANGED << otherLocals, shared, op, network, swapLocals, balance,
                  signature, signLog, sendLog >>

\* transfer.ts 154-178: serialize, hash, secp256k1_sign.  A rejected request
\* or a non-string answer is rethrown as a signing failure.
Transfer_Sign(p) ==
  /\ op[p] = "transfer" /\ pc[p] = "sign"
  /\ signLog' = [signLog EXCEPT ![p] = Append(@, SignRequest(p, TRUE))]
  /\ \/ /\ Throw(p, "SignFailed")
        /\ ClearTx(p)
        /\ UNCHANGED signature
     \/ /\ \E sig \in Signatures : signature' = [signature EXCEPT ![p] = sig]
        /\ Goto(p, "assemble")
        /\ UNCHANGED << tx, fees >>
  /\ balance' = [balance EXCEPT ![p] = 0]
  /\ UNCHANGED << otherLocals, shared, op, network, swapLocals, sendLog >>

\* A comparison that accepts every recovered signer.
SignerNeverMismatch(recoveredAddr, walletAddr) == FALSE

\* transfer.ts 206: recoveredAddr.toLowerCase() !== walletAddress, with
\* walletAddress = wallet.address.toLowerCase() (line 63).
SignerMismatch(recoveredAddr, walletAddr) ==
  toLowerCase(recoveredAddr) # toLowerCase(walletAddr)

\* transfer.ts 181-221: split the signature, normalise the recovery byte,
\* recover and compare the signer, attach v.
Transfer_Assemble(p) ==
  /\ op[p] = "transfer" /\ pc[p] = "assemble"
  /\ LET sig == signature[p]
         recoveryId == StrictRecoveryId(sig.byte)
         recoveredAddr == recoverAddress(sig, recoveryId + 27)
         v == Eip155V(recoveryId, getChainId(network[p]))
     IN IF sig.short
          THEN Throw(p, "InvalidSignature") /\ ClearTx(p)
        ELSE IF ~ValidRecoveryByte(sig.byte)
          THEN Throw(p, "InvalidRecoveryByte") /\ ClearTx(p)
        ELSE IF SignerMismatch(recoveredAddr, wallet.address)
          THEN Throw(p, "SignatureVerificationFailed")
               /\ ClearTx(p)
        ELSE Goto(p, "send") /\ tx' = [tx EXCEPT ![p] = Signed(@, sig, v)] /\ UNCHANGED fees
  /\ DropSignatureUnlessSending(p)
  /\ UNCHANGED << otherLocals, shared, op, network, swapLocals, balance, signLog,
                  sendLog >>

\* transfer.ts 238-251: the error raised for a rejected broadcast.
TransferSendError(e) ==
  IF includes(e.message, "insufficient funds") \/ e.code = -32000
    THEN "InsufficientFundsRejected"
  ELSE IF includes(e.message, "nonce") THEN "NonceError"
  ELSE IF includes(e.message, "network") THEN "NetworkError"
  ELSE "TransactionFailed"

\* transfer.ts 224-252: publicClient.sendRawTransaction, result or classified
\* error.
Transfer_Send(p) ==
  /\ op[p] = "transfer" /\ pc[p] = "send"
  /\ \/ /\ Acceptable(tx[p])
        /\ pending' = Pool(tx[p])
        /\ sendLog' = [sendLog EXCEPT ![p] = Append(@, SendCall(tx[p], TRUE))]
        /\ Return(p, "pending")
        /\ UNCHANGED rejection
     \/ /\ \E e \in NodeErrors :
             /\ rejection' = [rejection EXCEPT ![p] = e]
             /\ Throw(p, TransferSendError(e))
        /\ sendLog' = [sendLog EXCEPT ![p] = Append(@, SendCall(tx[p], FALSE))]
        /\ UNCHANGED pending
  /\ ClearTx(p)
  /\ signature' = [signature EXCEPT ![p] = NoSignature]
  /\ UNCHANGED << swapPage, callData, headers, receipt, wallet, walletChain, txCount,
                  op, network, swapLocals,
                  balance, signLog >>

(***************************************************************************)
(* Tokens and the quote arithmetic of swap.ts                              *)
(***************************************************************************)
NATIVE_TOKEN == Addr("0x0", "lower")
WCRO == Addr("WCRO", "checksum")
VVS_ROUTER == Addr("ROUTER", "checksum")

\* viem getAddress.
getAddress(a) == [a EXCEPT !.case = "checksum"]

\* a.toLowerCase() === b.toLowerCase()
SameAddress(a, b) == toLowerCase(a) = toLowerCase(b)

NoParams ==
  [recipient |-> NoAddress, fromToken |-> NoAddress, toToken |-> NoAddress,
   slippage |-> 0]
NoQuote == [path |-> << >>, amountOut |-> 0, minOut |-> 0]
\* The allowance local before the allowance call has answered.
NoAllowance == [read |-> FALSE, value |-> 0]

\* The factor with the tolerance added instead of subtracted.
SlippageSurplus(slippage) == (100000 + slippage) \div 10

\* Slippage is a percentage given as a number; the model counts it in
\* thousandths of a percent, so Math.floor((100 - slippage) * 100) is
\* floor((100000 - s) / 10).  The floor is taken of the exact product: the
\* rounding of the double-precision product is not modelled.
SlippageFactor(slippage) == (100000 - slippage) \div 10

\* The same quotient rounded up instead of down.
MinOutRoundedUp(amountOut, slippage) ==
  (amountOut * SlippageFactor(slippage) + 9999) \div 10000

\* swap.ts 329 / 586: (amountOut * BigInt(floor((100 - slippage) * 100)))
\* / BigInt(100 * 100).
MinOut(amountOut, slippage) == (amountOut * SlippageFactor(slippage)) \div 10000

\* swap.ts 317-319 (swapCROManual): CRO -> WCRO -> toToken, or WCRO alone.
CROPath(toToken) ==
  LET toTokenAddress == getAddress(toToken)
      wCRO == getAddress(WCRO)
  IN IF SameAddress(toTokenAddress, wCRO) THEN << wCRO >>
     ELSE << wCRO, toTokenAddress >>

\* swap.ts 553: isToNative.
IsToNative(toToken) == SameAddress(getAddress(toToken), NATIVE_TOKEN)

\* swap.ts 569-577 (swapTokenManual).
TokenPath(fromToken, toToken) ==
  LET fromTokenAddress == getAddress(fromToken)
      toTokenAddress == getAddress(toToken)
      wCRO == getAddress(WCRO)
  IN IF IsToNative(toToken) THEN << fromTokenAddress, wCRO >>
     ELSE IF SameAddress(fromTokenAddress, wCRO) THEN << wCRO, toTokenAddress >>
     ELSE IF SameAddress(toTokenAddress, wCRO) THEN << fromTokenAddress, wCRO >>
     ELSE << fromTokenAddress, wCRO, toTokenAddress >>

\* swap.ts 553-557: readContract of decimals() answers only for an address
\* that holds a contract; the native placeholder holds none.
HasCode(token) == ~SameAddress(token, NATIVE_TOKEN)

\* swap.ts 579-584: getAmountsOut reverts for a route that names the same
\* token on both sides of a hop.
IdenticalAddresses(path) ==
  \E i \in 1..(Len(path) - 1) : path[i] = path[i + 1]

\* Gas estimates a node returns for the approve and router calls.
SwapGasEstimates == {40000, 160000}
EstimateOutcomes ==
  { [ok |-> FALSE, gas |-> 0] } \cup
  { [ok |-> TRUE, gas |-> g] : g \in SwapGasEstimates }

Max(a, b) == IF a >= b THEN a ELSE b

\* swap.ts 341-353: swapCROManual's gas limit.
SwapCROGas(estimate) ==
  IF estimate.ok THEN Max(estimate.gas * 2, 250000) ELSE 300000

\* swap.ts 606-618: the approval's gas limit.
ApprovalGas(estimate) ==
  IF estimate.ok THEN Max(estimate.gas * 2, 100000) ELSE 150000

\* swap.ts 645-657: swapTokenManual's gas limit for the router call.
SwapTokenGas(estimate) ==
  IF estimate.ok THEN Max(estimate.gas * 2, 300000) ELSE 350000

(***************************************************************************)
(* swapCROManual and swapTokenManual                                       *)
(***************************************************************************)
\* swap.ts 295-306: parameter and wallet checks of swapCROManual.
SwapCRO_Start(p, toToken, slippage, net) ==
  /\ pc[p] = "idle"
  /\ op' = [op EXCEPT ![p] = "swapCRO"]
  /\ network' = [network EXCEPT ![p] = net]
  /\ params' = [params EXCEPT ![p] =
       [recipient |-> NoAddress, fromToken |-> NATIVE_TOKEN,
        toToken |-> toToken, slippage |-> slippage]]
  /\ IF wallet.address = NoAddress THEN Throw(p, "WalletNotConnected")
     ELSE IF ~isAddress(toToken) THEN Throw(p, "InvalidAddress")
     ELSE IF NotPrivy(wallet)
       THEN Throw(p, "UnsupportedWallet")
     ELSE Goto(p, "switchChain")
  /\ UNCHANGED << otherLocals, shared, quote, allowance, nextNonce, balance, tx,
                  fees, signature, signLog,
                  sendLog >>

\* swap.ts 534-546: parameter and wallet checks of swapTokenManual.
SwapToken_Start(p, fromToken, toToken, slippage, net) ==
  /\ pc[p] = "idle"
  /\ op' = [op EXCEPT ![p] = "swapToken"]
  /\ network' = [network EXCEPT ![p] = net]
  /\ params' = [params EXCEPT ![p] =
       [recipient |-> NoAddress, fromToken |-> fromToken, toToken |-> toToken,
        slippage |-> slippage]]
  /\ IF wallet.address = NoAddress THEN Throw(p, "WalletNotConnected")
     ELSE IF ~isAddress(fromToken) THEN Throw(p, "InvalidAddress")
     ELSE IF ~isAddress(toToken) THEN Throw(p, "InvalidAddress")
     ELSE IF NotPrivy(wallet)
       THEN Throw(p, "UnsupportedWallet")
     ELSE Goto(p, "switchChain")
  /\ UNCHANGED << otherLocals, shared, quote, allowance, nextNonce, balance, tx,
                  fees, signature, signLog,
                  sendLog >>

\* swap.ts 307-308 / 547-548: await wallet.switchChain(targetChainId); nothing
\* reads the wallet's chain afterwards.
Swap_SwitchChain(p) ==
  /\ op[p] \in {"swapCRO", "swapToken"} /\ pc[p] = "switchChain"
  /\ \E outcome \in {"switched", "ignored", "rejected"} :
       /\ walletChain' =
            IF outcome = "switched" THEN getChainId(network[p]) ELSE walletChain
       /\ IF outcome = "rejected"
            THEN Throw(p, "SwitchChainFailed")
            ELSE Goto(p, "quote")
  /\ UNCHANGED << otherLocals, wallet, txCount, pending, op, network, swapLocals,
                  balance,
                  tx, fees, signature, signLog, sendLog >>

\* swap.ts 310-329: build the path, read getAmountsOut, compute minOut.  The
\* read may revert; amountOut is the last element of what it returns.
SwapCRO_Quote(p, amountOut) ==
  /\ op[p] = "swapCRO" /\ pc[p] = "quote"
  /\ LET path == CROPath(params[p].toToken)
     IN \/ /\ quote' = [quote EXCEPT ![p] =
                 [path |-> path, amountOut |-> 0, minOut |-> 0]]
           /\ Throw(p, "QuoteFailed")
        \/ /\ quote' = [quote EXCEPT ![p] =
                 [path |-> path, amountOut |-> amountOut,
                  minOut |-> MinOut(amountOut, params[p].slippage)]]
           /\ Goto(p, "build")
  /\ UNCHANGED << otherLocals, shared, op, network, params, allowance, nextNonce,
                  balance, tx, fees,
                  signature, signLog, sendLog >>

\* swap.ts 331-368: nonce ('latest') from the network's RPC, call data, gas
\* estimate with fallback, gas price, the transaction for signAndSendRaw.
SwapCRO_Build(p) ==
  /\ op[p] = "swapCRO" /\ pc[p] = "build"
  /\ \E estimate \in EstimateOutcomes, gasPrice \in GasPrices :
       LET rpc == getRpcUrl(network[p])
           nonce == LatestCount(rpc)
           swapData == CallData("swapExactETHForTokens", quote[p].minOut,
                                quote[p].path)
       IN /\ nextNonce' = [nextNonce EXCEPT ![p] = nonce]
          /\ tx' = [tx EXCEPT ![p] =
               LegacyTx("swap", getChainId(network[p]), nonce,
                        SwapCROGas(estimate), gasPrice, AmountWei, swapData, rpc)]
          /\ fees' = [fees EXCEPT ![p] =
               Fees(IF estimate.ok THEN "ok" ELSE "failed", estimate.gas, gasPrice)]
  /\ Goto(p, "sign")
  /\ UNCHANGED << otherLocals, shared, op, network, params, quote, allowance,
                  balance, signature,
                  signLog, sendLog >>

\* swap.ts 550-586: decimals, the self-swap check, the path, getAmountsOut,
\* minOut.
SwapToken_Quote(p, amountOut) ==
  /\ op[p] = "swapToken" /\ pc[p] = "quote"
  /\ LET path == TokenPath(params[p].fromToken, params[p].toToken)
     IN IF ~HasCode(getAddress(params[p].fromToken))
          THEN Throw(p, "DecimalsFailed") /\ UNCHANGED quote
        ELSE IF SameAddress(getAddress(params[p].fromToken),
                            getAddress(params[p].toToken))
          THEN Throw(p, "SameToken") /\ UNCHANGED quote
          ELSE \/ /\ quote' = [quote EXCEPT ![p] =
                        [path |-> path, amountOut |-> 0, minOut |-> 0]]
                  /\ Throw(p, "QuoteFailed")
               \/ /\ ~IdenticalAddresses(path)
                  /\ quote' = [quote EXCEPT ![p] =
                        [path |-> path, amountOut |-> amountOut,
                         minOut |-> MinOut(amountOut, params[p].slippage)]]
                  /\ Goto(p, "allowance")
  /\ UNCHANGED << otherLocals, shared, op, network, params, allowance, nextNonce,
                  balance, tx, fees,
                  signature, signLog, sendLog >>

\* Allowances the token contract may report for the router.
Allowances == {0, AmountWei}

\* A test that asks for an approval whatever the allowance.
AlwaysNeedsApproval(allowanceRead, amountIn) == TRUE

\* swap.ts 599: allowance < amountInWei.
NeedsApproval(allowanceRead, amountIn) == allowanceRead < amountIn

\* swap.ts 588-599: the base nonce ('latest') and the router's allowance.
SwapToken_Allowance(p) ==
  /\ op[p] = "swapToken" /\ pc[p] = "allowance"
  /\ nextNonce' = [nextNonce EXCEPT ![p] = LatestCount(getRpcUrl(network[p]))]
  /\ \E allowanceRead \in Allowances :
       /\ allowance' = [allowance EXCEPT ![p] =
            [read |-> TRUE, value |-> allowanceRead]]
       /\ IF NeedsApproval(allowanceRead, AmountWei)
            THEN Goto(p, "buildApprove")
            ELSE Goto(p, "build")
  /\ UNCHANGED << otherLocals, shared, op, network, params, quote, balance, tx, fees,
                  signature, signLog, sendLog >>

\* swap.ts 600-633: approve call data, gas estimate with fallback, gas price,
\* the approval transaction for signAndSendRaw.
SwapToken_BuildApprove(p) ==
  /\ op[p] = "swapToken" /\ pc[p] = "buildApprove"
  /\ \E estimate \in EstimateOutcomes, gasPrice \in GasPrices :
       /\ tx' = [tx EXCEPT ![p] =
            LegacyTx("approve", getChainId(network[p]), nextNonce[p],
                     ApprovalGas(estimate), gasPrice, 0,
                     CallData("approve", 0, << >>), getRpcUrl(network[p]))]
       /\ fees' = [fees EXCEPT ![p] =
            Fees(IF estimate.ok THEN "ok" ELSE "failed", estimate.gas, gasPrice)]
  /\ Goto(p, "sign")
  /\ UNCHANGED << otherLocals, shared, op, network, swapLocals, balance, signature,
                  signLog, sendLog >>

\* swap.ts 638: the router function of a token swap.
SwapFunction(toToken) ==
  IF IsToNative(toToken) THEN "swapExactTokensForETH"
  ELSE "swapExactTokensForTokens"

\* swap.ts 637-672: swap call data, gas estimate with fallback, gas price, the
\* swap transaction with the local nonce.
SwapToken_Build(p) ==
  /\ op[p] = "swapToken" /\ pc[p] = "build"
  /\ \E estimate \in EstimateOutcomes, gasPriceSwap \in GasPrices :
       /\ tx' = [tx EXCEPT ![p] =
            LegacyTx("swap", getChainId(network[p]), nextNonce[p],
                     SwapTokenGas(estimate), gasPriceSwap, 0,
                     CallData(SwapFunction(params[p].toToken), quote[p].minOut,
                              quote[p].path),
                     getRpcUrl(network[p]))]
       /\ fees' = [fees EXCEPT ![p] =
            Fees(IF estimate.ok THEN "ok" ELSE "failed", estimate.gas, gasPriceSwap)]
  /\ Goto(p, "sign")
  /\ UNCHANGED << otherLocals, shared, op, network, swapLocals, balance, signature,
                  signLog, sendLog >>

\* A nonce local that is not advanced.
SameNonce(nonce) == nonce

\* swap.ts 634: nextNonce += 1.
AfterApproval(nonce) == nonce + 1

\* swap.ts 67-73 (signAndSendRaw): serialize, hash, secp256k1_sign.
SignAndSendRaw_Sign(p) ==
  /\ op[p] \in {"swapCRO", "swapToken"} /\ pc[p] = "sign"
  /\ signLog' = [signLog EXCEPT ![p] = Append(@, SignRequest(p, FALSE))]
  /\ \/ /\ Throw(p, "SignFailed")
        /\ ClearTx(p)
        /\ UNCHANGED signature
     \/ /\ \E sig \in Signatures : signature' = [signature EXCEPT ![p] = sig]
        /\ Goto(p, "assemble")
        /\ UNCHANGED << tx, fees >>
  /\ UNCHANGED << otherLocals, shared, op, network, swapLocals, balance, sendLog >>

\* swap.ts 71-81 (signAndSendRaw): length check, split, recovery id, v, the
\* signed transaction.
SignAndSendRaw_Assemble(p) ==
  /\ op[p] \in {"swapCRO", "swapToken"} /\ pc[p] = "assemble"
  /\ LET sig == signature[p]
         recoveryId == LaxRecoveryId(sig.byte)
         v == Eip155V(recoveryId, tx[p].chainId)
     IN IF sig.short
          THEN Throw(p, "InvalidSignature") /\ ClearTx(p)
          ELSE Goto(p, "send") /\ tx' = [tx EXCEPT ![p] = Signed(@, sig, v)] /\ UNCHANGED fees
  /\ DropSignatureUnlessSending(p)
  /\ UNCHANGED << otherLocals, shared, op, network, swapLocals, balance, signLog,
                  sendLog >>

\* swap.ts 82-83 (signAndSendRaw) and its call sites: nextNonce += 1 after
\* the approval (621-634), the return of both swap functions (370 / 674).  A
\* rejection propagates as thrown.
SignAndSendRaw_Send(p) ==
  /\ op[p] \in {"swapCRO", "swapToken"} /\ pc[p] = "send"
  /\ \/ /\ Acceptable(tx[p])
        /\ pending' = Pool(tx[p])
        /\ sendLog' = [sendLog EXCEPT ![p] = Append(@, SendCall(tx[p], TRUE))]
        /\ IF tx[p].kind = "approve"
             THEN /\ nextNonce' = [nextNonce EXCEPT ![p] = AfterApproval(@)]
                  /\ Goto(p, "build")
             ELSE /\ Return(p, "pending")
                  /\ UNCHANGED nextNonce
     \/ /\ Throw(p, "SendRejected")
        /\ sendLog' = [sendLog EXCEPT ![p] = Append(@, SendCall(tx[p], FALSE))]
        /\ UNCHANGED << pending, nextNonce >>
  /\ ClearTx(p)
  /\ signature' = [signature EXCEPT ![p] = NoSignature]
  /\ UNCHANGED << otherLocals, wallet, walletChain, txCount, op, network, params,
                  quote, allowance,
                  balance, signLog >>

\* Inputs of the swap functions.
MaxAmountOut == 2
AmountsOut == 0..MaxAmountOut
Slippages == {500}
FromTokens == {Addr("A", "lower"), WCRO, NATIVE_TOKEN, Malformed}
ToTokens == {Addr("B", "checksum"), WCRO, NATIVE_TOKEN, Malformed}

Swap(p) ==
  \/ \E toToken \in ToTokens \ {NATIVE_TOKEN}, slippage \in Slippages,
        net \in Networks :
       SwapCRO_Start(p, toToken, slippage, net)
  \/ \E fromToken \in FromTokens, toToken \in ToTokens,
        slippage \in Slippages, net \in Networks :
       SwapToken_Start(p, fromToken, toToken, slippage, net)
  \/ Swap_SwitchChain(p)
  \/ \E amountOut \in AmountsOut : SwapCRO_Quote(p, amountOut)
  \/ SwapCRO_Build(p)
  \/ \E amountOut \in AmountsOut : SwapToken_Quote(p, amountOut)
  \/ SwapToken_Allowance(p)
  \/ SwapToken_BuildApprove(p)
  \/ SwapToken_Build(p)
  \/ SignAndSendRaw_Sign(p)
  \/ SignAndSendRaw_Assemble(p)
  \/ SignAndSendRaw_Send(p)

(***************************************************************************)
(* The bridge page: handleBridge, getBridgeTransaction, executeBridge and  *)
(* executeBridgeNative                                                     *)
(***************************************************************************)
BridgeTokens == {"CRO", "USDC"}

\* What the quote service does with the request: the fetch throws, both
\* endpoints answer with an error status, or one answers with call data.
BridgeResponses ==
  { [http |-> "throws", data |-> ""], [http |-> "error", data |-> ""] } \cup
  { [http |-> "ok", data |-> d] : d \in {"", "0x", "0xcalldata"} }

\* part_009 434: !callData || callData === '0x' || callData.length <= 2
EmptyCallData(cd) == cd = "" \/ cd = "0x"

\* part_009 344-462: what getBridgeTransaction returns (ok) or that it throws.
getBridgeTransaction(response) ==
  IF response.http = "throws" THEN [ok |-> FALSE, data |-> ""]
  ELSE IF response.http = "error" THEN [ok |-> TRUE, data |-> "0x"]
  ELSE IF EmptyCallData(response.data) THEN [ok |-> FALSE, data |-> ""]
  ELSE [ok |-> TRUE, data |-> response.data]

\* execute-bridge.ts 224 / 362: callData && callData !== '0x' ? callData : '0x'
TxCallData(cd) == IF cd # "" /\ cd # "0x" THEN cd ELSE "0x"

\* bridge/page.tsx 37, 44-80: input checks, the privy wallet of the page, the
\* token that decides which execute function runs.
Bridge_Start(p, token, valid) ==
  /\ pc[p] = "idle"
  /\ op' = [op EXCEPT ![p] = IF token = "CRO" THEN "bridgeNative" ELSE "bridge"]
  /\ IF ~valid THEN Throw(p, "InvalidInput")
     ELSE IF wallet.walletClientType # "privy" THEN Throw(p, "NoPrivyWallet")
     ELSE Goto(p, "getTransaction")
  /\ UNCHANGED << otherLocals, shared, network, swapLocals, balance, tx, fees,
                  signature, signLog, sendLog >>

\* execute-bridge.ts 86-101 / 323-340: executeBridge or executeBridgeNative
\* called with a wallet and call data; the functions are exported and take
\* whatever wallet the caller hands them.
ExecuteBridge_Call(p, token, data) ==
  /\ pc[p] = "idle"
  /\ op' = [op EXCEPT ![p] = IF token = "CRO" THEN "bridgeNative" ELSE "bridge"]
  /\ callData' = [callData EXCEPT ![p] = data]
  /\ Goto(p, "enter")
  /\ UNCHANGED << swapPage, headers, receipt, rejection, shared, network, swapLocals,
                  balance,
                  tx, fees, signature, signLog, sendLog >>

\* bridge/page.tsx 84-101 with part_009 344-462: the quote request; only a
\* missing contract address stops the page, and the result always has one.
Bridge_GetTransaction(p, response) ==
  /\ op[p] \in {"bridge", "bridgeNative"} /\ pc[p] = "getTransaction"
  /\ LET txData == getBridgeTransaction(response)
     IN IF ~txData.ok
          THEN Throw(p, "BridgeQuoteFailed") /\ UNCHANGED callData
          ELSE /\ callData' = [callData EXCEPT ![p] = txData.data]
               /\ Goto(p, "enter")
  /\ UNCHANGED << swapPage, headers, receipt, rejection, shared, op, network,
                  swapLocals, balance, tx, fees,
                  signature, signLog, sendLog >>

\* execute-bridge.ts 102-118 / 342-357: the wallet must have an address; the
\* token bridge starts with the approval, the native one with the bridge call.
Bridge_Enter(p) ==
  /\ op[p] \in {"bridge", "bridgeNative"} /\ pc[p] = "enter"
  /\ IF wallet.address = NoAddress THEN Throw(p, "WalletNotConnected")
     ELSE IF op[p] = "bridge" THEN Goto(p, "buildApprove")
     ELSE Goto(p, "build")
  /\ UNCHANGED << otherLocals, shared, op, network, swapLocals, balance, tx, fees,
                  signature, signLog, sendLog >>

\* execute-bridge.ts 122-151: nonce ('latest') and gas price from the Cronos
\* RPC, the approval with 100000 gas.  A failing read is caught at 217.
Bridge_BuildApprove(p) ==
  /\ op[p] = "bridge" /\ pc[p] = "buildApprove"
  /\ \/ Goto(p, "build") /\ UNCHANGED << tx, fees >>
     \/ /\ \E gasPrice \in GasPrices :
             /\ tx' = [tx EXCEPT ![p] =
                  LegacyTx("approve", CRONOS_CHAIN_ID,
                           LatestCount(CRONOS_CHAIN_ID), 100000, gasPrice, 0,
                           CallData("approve", 0, << >>), CRONOS_CHAIN_ID)]
             /\ fees' = [fees EXCEPT ![p] = Fees("none", 0, gasPrice)]
        /\ Goto(p, "signApprove")
  /\ UNCHANGED << otherLocals, shared, op, network, swapLocals, balance,
                  signature, signLog, sendLog >>

\* execute-bridge.ts 154-161: secp256k1_sign for the approval; a rejection is
\* caught at 217.
Bridge_SignApprove(p) ==
  /\ op[p] = "bridge" /\ pc[p] = "signApprove"
  /\ signLog' = [signLog EXCEPT ![p] = Append(@, SignRequest(p, FALSE))]
  /\ \/ /\ Goto(p, "build")
        /\ ClearTx(p)
        /\ UNCHANGED signature
     \/ /\ \E sig \in Signatures : signature' = [signature EXCEPT ![p] = sig]
        /\ Goto(p, "assembleApprove")
        /\ UNCHANGED << tx, fees >>
  /\ UNCHANGED << otherLocals, shared, op, network, swapLocals, balance,
                  sendLog >>

\* execute-bridge.ts 163-191: length check, recovery byte, v, the signed
\* approval.  Both throws are caught at 217.
Bridge_AssembleApprove(p) ==
  /\ op[p] = "bridge" /\ pc[p] = "assembleApprove"
  /\ LET sig == signature[p]
         approveRecoveryId == StrictRecoveryId(sig.byte)
         approveV == Eip155V(approveRecoveryId, CRONOS_CHAIN_ID)
     IN IF sig.short \/ ~ValidRecoveryByte(sig.byte)
          THEN Goto(p, "build") /\ ClearTx(p)
          ELSE Goto(p, "sendApprove")
               /\ tx' = [tx EXCEPT ![p] = Signed(@, sig, approveV)] /\ UNCHANGED fees
  /\ DropSignatureUnlessSending(p)
  /\ UNCHANGED << otherLocals, shared, op, network, swapLocals, balance,
                  signLog, sendLog >>

\* execute-bridge.ts 196-200: broadcast of the approval; a rejection is
\* caught at 217.
Bridge_SendApprove(p) ==
  /\ op[p] = "bridge" /\ pc[p] = "sendApprove"
  /\ \/ /\ Acceptable(tx[p])
        /\ pending' = Pool(tx[p])
        /\ sendLog' = [sendLog EXCEPT ![p] = Append(@, SendCall(tx[p], TRUE))]
        /\ Goto(p, "waitApprove")
     \/ /\ sendLog' = [sendLog EXCEPT ![p] = Append(@, SendCall(tx[p], FALSE))]
        /\ Goto(p, "build")
        /\ UNCHANGED pending
  /\ ClearTx(p)
  /\ signature' = [signature EXCEPT ![p] = NoSignature]
  /\ UNCHANGED << otherLocals, wallet, walletChain, txCount, op, network,
                  swapLocals, balance, signLog >>

\* A receipt exists once the transaction is mined; the wait may time out.
Mined(call) == call.signer = "W" => call.nonce < txCount[call.chainId]
Receipts(call) ==
  {"timeout"} \cup (IF Mined(call) THEN {"success", "reverted"} ELSE {})

\* execute-bridge.ts 203-216: wait up to 120 s for the approval's receipt;
\* every outcome continues with step 2.
Bridge_WaitApprove(p) ==
  /\ op[p] = "bridge" /\ pc[p] = "waitApprove"
  /\ \E approvalReceipt \in Receipts(sendLog[p][Len(sendLog[p])]) :
       Goto(p, "build")
  /\ UNCHANGED << otherLocals, shared, op, network, swapLocals, balance, tx, fees,
                  signature, signLog, sendLog >>

\* execute-bridge.ts 224-245 / 362-383: the call data to use, nonce ('latest')
\* and gas price from the Cronos RPC, the bridge transaction with 500000 gas;
\* the native bridge carries the amount as value.
Bridge_Build(p) ==
  /\ op[p] \in {"bridge", "bridgeNative"} /\ pc[p] = "build"
  /\ \/ Throw(p, "RpcFailed") /\ UNCHANGED << tx, fees >>
     \/ /\ \E gasPrice \in GasPrices :
             /\ tx' = [tx EXCEPT ![p] =
                  LegacyTx("bridge", CRONOS_CHAIN_ID,
                           LatestCount(CRONOS_CHAIN_ID), 500000, gasPrice,
                           IF op[p] = "bridgeNative" THEN AmountWei ELSE 0,
                           CallData(TxCallData(callData[p]), 0, << >>),
                           CRONOS_CHAIN_ID)]
             /\ fees' = [fees EXCEPT ![p] = Fees("none", 0, gasPrice)]
        /\ Goto(p, "sign")
  /\ UNCHANGED << otherLocals, shared, op, network, swapLocals, balance,
                  signature, signLog, sendLog >>

\* execute-bridge.ts 248-255 / 386-393: secp256k1_sign for the bridge call.
Bridge_Sign(p) ==
  /\ op[p] \in {"bridge", "bridgeNative"} /\ pc[p] = "sign"
  /\ signLog' = [signLog EXCEPT ![p] = Append(@, SignRequest(p, FALSE))]
  /\ \/ /\ Throw(p, "SignFailed")
        /\ ClearTx(p)
        /\ UNCHANGED signature
     \/ /\ \E sig \in Signatures : signature' = [signature EXCEPT ![p] = sig]
        /\ Goto(p, "assemble")
        /\ UNCHANGED << tx, fees >>
  /\ UNCHANGED << otherLocals, shared, op, network, swapLocals, balance,
                  sendLog >>

\* execute-bridge.ts 257-285 / 395-423: length check, recovery byte, v, the
\* signed bridge transaction.
Bridge_Assemble(p) ==
  /\ op[p] \in {"bridge", "bridgeNative"} /\ pc[p] = "assemble"
  /\ LET sig == signature[p]
         bridgeRecoveryId == StrictRecoveryId(sig.byte)
         bridgeV == Eip155V(bridgeRecoveryId, CRONOS_CHAIN_ID)
     IN IF sig.short
          THEN Throw(p, "InvalidSignature") /\ ClearTx(p)
        ELSE IF ~ValidRecoveryByte(sig.byte)
          THEN Throw(p, "InvalidRecoveryByte") /\ ClearTx(p)
        ELSE Goto(p, "send") /\ tx' = [tx EXCEPT ![p] = Signed(@, sig, bridgeV)] /\ UNCHANGED fees
  /\ DropSignatureUnlessSending(p)
  /\ UNCHANGED << otherLocals, shared, op, network, swapLocals, balance,
                  signLog, sendLog >>

\* execute-bridge.ts 290-294 / 428-432: broadcast of the bridge transaction.
Bridge_Send(p) ==
  /\ op[p] \in {"bridge", "bridgeNative"} /\ pc[p] = "send"
  /\ \/ /\ Acceptable(tx[p])
        /\ pending' = Pool(tx[p])
        /\ sendLog' = [sendLog EXCEPT ![p] = Append(@, SendCall(tx[p], TRUE))]
        /\ Goto(p, "wait")
     \/ /\ sendLog' = [sendLog EXCEPT ![p] = Append(@, SendCall(tx[p], FALSE))]
        /\ Throw(p, "SendRejected")
        /\ UNCHANGED pending
  /\ ClearTx(p)
  /\ signature' = [signature EXCEPT ![p] = NoSignature]
  /\ UNCHANGED << otherLocals, wallet, walletChain, txCount, op, network,
                  swapLocals, balance, signLog >>

\* A status test that lets every receipt pass.
ReceiptNeverFailed(bridgeReceipt) == FALSE

\* execute-bridge.ts 305 / 443: bridgeReceipt.status !== 'success'.
ReceiptFailed(bridgeReceipt) == bridgeReceipt # "success"

\* execute-bridge.ts 297-314 / 435-452: wait up to 300 s for the receipt
\* (waitForTransactionReceipt throws when the time is up) and read its
\* status.
Bridge_Wait(p) ==
  /\ op[p] \in {"bridge", "bridgeNative"} /\ pc[p] = "wait"
  /\ \E bridgeReceipt \in Receipts(sendLog[p][Len(sendLog[p])]) :
       /\ receipt' = [receipt EXCEPT ![p] = bridgeReceipt]
       /\ IF bridgeReceipt = "timeout" THEN Throw(p, "ReceiptTimeout")
          ELSE IF ReceiptFailed(bridgeReceipt)
            THEN Throw(p, "BridgeFailedOnChain")
          ELSE Return(p, "success")
  /\ UNCHANGED << swapPage, callData, headers, rejection, shared, op, network,
                  swapLocals, balance, tx,
                  fees, signature, signLog, sendLog >>

Bridge(p) ==
  \/ \E token \in BridgeTokens, valid \in BOOLEAN : Bridge_Start(p, token, valid)
  \/ \E token \in BridgeTokens, data \in {"0x", "0xcalldata"} :
       ExecuteBridge_Call(p, token, data)
  \/ \E response \in BridgeResponses : Bridge_GetTransaction(p, response)
  \/ Bridge_Enter(p)
  \/ Bridge_BuildApprove(p)
  \/ Bridge_SignApprove(p)
  \/ Bridge_AssembleApprove(p)
  \/ Bridge_SendApprove(p)
  \/ Bridge_WaitApprove(p)
  \/ Bridge_Build(p)
  \/ Bridge_Sign(p)
  \/ Bridge_Assemble(p)
  \/ Bridge_Send(p)
  \/ Bridge_Wait(p)

(***************************************************************************)
(* The payment modal: buildEvmPaymentHeader and handlePayment              *)
(***************************************************************************)
\* The paymentRequirements prop: absent, or with its optional network field.
PaymentRequirements ==
  { [present |-> FALSE, network |-> ""] } \cup
  { [present |-> TRUE, network |-> n] : n \in {"", "cronos", "cronos-testnet"} }

\* part_003 23-37: btoa(JSON.stringify(header)); the encoding is kept apart
\* from the object it encodes.
buildEvmPaymentHeader(signedTransaction, net, scheme) ==
  [encoding |-> "base64",
   json |-> [x402Version |-> 1,
             scheme |-> IF scheme # "" THEN scheme ELSE "exact",
             network |-> net,
             payload |-> [rawTransaction |-> signedTransaction]]]

\* part_003 73-84: the wallet the modal signs with, if the list has one.
IsPrivyWallet(w) ==
  \/ w.walletClientType = "privy"
  \/ /\ w.walletClientType = ""
     /\ w.walletClientType \notin
          {"metamask", "coinbase_wallet", "wallet_connect", "phantom"}

\* part_003 100-104, 114-130: the network of the requirements, the checks
\* that end handlePayment with setError and a plain return.
Payment_Start(p, requirements) ==
  /\ pc[p] = "idle"
  /\ op' = [op EXCEPT ![p] = "payment"]
  /\ network' = [network EXCEPT ![p] =
       IF requirements.network = "cronos-testnet" THEN "testnet" ELSE "mainnet"]
  /\ IF ~requirements.present THEN Throw(p, "NoPaymentRequirements")
     ELSE IF ~IsPrivyWallet(wallet) \/ wallet.address = NoAddress
       THEN Throw(p, "WalletNotConnected")
     ELSE Goto(p, "checkChain")
  /\ UNCHANGED << otherLocals, shared, swapLocals, balance, tx, fees, signature,
                  signLog, sendLog >>

\* part_003 146-151: walletClient.getChainId() against network.id.
Payment_CheckChain(p) ==
  /\ op[p] = "payment" /\ pc[p] = "checkChain"
  /\ IF walletChain # getChainId(network[p])
       THEN Throw(p, "NetworkMismatch")
       ELSE Goto(p, "build")
  /\ UNCHANGED << otherLocals, shared, op, network, swapLocals, balance, tx, fees,
                  signature, signLog, sendLog >>

\* part_003 140-143, 154-169: nonce ('latest') and gas price from the public
\* client, whose transport is the mainnet endpoint whatever the network; the
\* payment transaction with 21000 gas.
Payment_Build(p) ==
  /\ op[p] = "payment" /\ pc[p] = "build"
  /\ \/ Throw(p, "RpcFailed") /\ UNCHANGED << tx, fees >>
     \/ /\ \E gasPrice \in GasPrices :
             /\ tx' = [tx EXCEPT ![p] =
                  LegacyTx("payment", getChainId(network[p]),
                           LatestCount(CRONOS_MAINNET_CHAIN_ID), 21000, gasPrice,
                           AmountWei, NoData, CRONOS_MAINNET_CHAIN_ID)]
             /\ fees' = [fees EXCEPT ![p] = Fees("none", 0, gasPrice)]
        /\ Goto(p, "sign")
  /\ UNCHANGED << otherLocals, shared, op, network, swapLocals, balance,
                  signature, signLog, sendLog >>

\* part_003 172-191: serialize, hash, secp256k1_sign.
Payment_Sign(p) ==
  /\ op[p] = "payment" /\ pc[p] = "sign"
  /\ signLog' = [signLog EXCEPT ![p] = Append(@, SignRequest(p, TRUE))]
  /\ \/ /\ Throw(p, "SignFailed")
        /\ ClearTx(p)
        /\ UNCHANGED signature
     \/ /\ \E sig \in Signatures : signature' = [signature EXCEPT ![p] = sig]
        /\ Goto(p, "assemble")
        /\ UNCHANGED << tx, fees >>
  /\ UNCHANGED << otherLocals, shared, op, network, swapLocals, balance,
                  sendLog >>

\* part_003 194-245: length check, recovery byte, recover and compare the
\* signer, v, the signed transaction, the header, onPaymentComplete.  Nothing
\* is broadcast.
Payment_Assemble(p) ==
  /\ op[p] = "payment" /\ pc[p] = "assemble"
  /\ LET sig == signature[p]
         recoveryId == StrictRecoveryId(sig.byte)
         recoveredAddr == recoverAddress(sig, recoveryId + 27)
         v == Eip155V(recoveryId, getChainId(network[p]))
         signedTx == Signed(tx[p], sig, v)
         isTestnet == getChainId(network[p]) = 338
         paymentHeader ==
           buildEvmPaymentHeader(signedTx,
             IF isTestnet THEN "cronos-testnet" ELSE "cronos", "exact")
     IN IF sig.short
          THEN Throw(p, "InvalidSignature") /\ UNCHANGED headers
        ELSE IF ~ValidRecoveryByte(sig.byte)
          THEN Throw(p, "InvalidRecoveryByte") /\ UNCHANGED headers
        ELSE IF SignerMismatch(recoveredAddr, wallet.address)
          THEN Throw(p, "SignatureVerificationFailed") /\ UNCHANGED headers
        ELSE /\ headers' = [headers EXCEPT ![p] = Append(@, paymentHeader)]
             /\ Return(p, "header")
  /\ ClearTx(p)
  /\ DropSignatureUnlessSending(p)
  /\ UNCHANGED << swapPage, callData, receipt, rejection, shared, op, network,
                  swapLocals, balance, signLog,
                  sendLog >>

Payment(p) ==
  \/ \E requirements \in PaymentRequirements : Payment_Start(p, requirements)
  \/ Payment_CheckChain(p)
  \/ Payment_Build(p)
  \/ Payment_Sign(p)
  \/ Payment_Assemble(p)

(***************************************************************************)
(* The swap page: the inputs, the quote it shows, the debounced            *)
(* auto-refresh and the Get Quote button                                   *)
(***************************************************************************)
\* The variables of the operation modules, which the page's quote display
\* leaves alone.
operationVars ==
  << shared, op, pc, network, swapLocals, callData, headers, receipt, rejection,
     balance, tx, fees, signature, error, status, signLog, sendLog >>

\* What the user may type as amount and choose as slippage.
PageAmounts == {"", "1", "2"}
PageSlippages == {"0.5", "1"}
PageInputs == [amount : PageAmounts, slippage : PageSlippages]

\* At most this many fetchQuote calls are in flight.
MaxInFlight == 2

\* part_002 109-112: no quote is shown.
NoPageQuote == [shown |-> FALSE, inputs |-> [amount |-> "", slippage |-> "0.5"]]

\* part_002 147-199: what fetchQuote returns for the inputs of the render
\* that called it; expectedOutput and minimumOutput are figures for that
\* amount and that slippage.
PageQuote(inputs) == [shown |-> TRUE, inputs |-> inputs]

\* part_002 100-112: useState("") for amount, "0.5" for slippage, null for
\* quote, false for quoting; no timer, no fetch.
SwapPageMounted ==
  [inputs |-> [amount |-> "", slippage |-> "0.5"],
   quote |-> NoPageQuote,
   quoting |-> FALSE,
   timer |-> FALSE,
   autoFetches |-> {},
   manualFetches |-> {}]

\* part_002 117-126: the wallet the page quotes and swaps with.
privyWallet == IsPrivyWallet(wallet)

InFlight == Cardinality(swapPage.autoFetches) + Cardinality(swapPage.manualFetches)

\* part_002 141-145 and 202-235: an input changes.  The reset effect clears
\* the quote; the cleanup of the auto-refresh effect cancels its fetch and
\* clears its timer; the effect runs again and arms a timer of 500 ms when
\* there is a wallet and an amount.
SwapPage_ChangeInput(inputs) ==
  /\ inputs # swapPage.inputs
  /\ swapPage' =
       [swapPage EXCEPT
          !.inputs = inputs,
          !.quote = NoPageQuote,
          !.autoFetches = { [f EXCEPT !.cancelled = TRUE] : f \in @ },
          !.timer = privyWallet /\ inputs.amount # ""]
  /\ UNCHANGED operationVars

\* part_002 211-214: the timer fires; setQuoting(true) and fetchQuote() with
\* the inputs of the render that armed it.
SwapPage_TimerFires ==
  /\ swapPage.timer
  /\ InFlight < MaxInFlight
  /\ swapPage' =
       [swapPage EXCEPT
          !.timer = FALSE,
          !.quoting = TRUE,
          !.autoFetches = @ \cup {[inputs |-> swapPage.inputs, cancelled |-> FALSE]}]
  /\ UNCHANGED operationVars

\* part_002 214-229: fetchQuote of the auto-refresh settles; a cancelled one
\* touches nothing.
SwapPage_AutoFetchSettles(f, ok) ==
  /\ f \in swapPage.autoFetches
  /\ swapPage' =
       IF f.cancelled
         THEN [swapPage EXCEPT !.autoFetches = @ \ {f}]
         ELSE [swapPage EXCEPT
                 !.autoFetches = @ \ {f},
                 !.quote = IF ok THEN PageQuote(f.inputs) ELSE NoPageQuote,
                 !.quoting = FALSE]
  /\ UNCHANGED operationVars

\* part_002 312-321 and 690-691: the Get Quote button, enabled when no quote
\* is being fetched and an amount is typed; setQuoting(true) and fetchQuote()
\* with the inputs of the render that was clicked.
SwapPage_GetQuote ==
  /\ privyWallet
  /\ ~swapPage.quoting /\ swapPage.inputs.amount # ""
  /\ InFlight < MaxInFlight
  /\ swapPage' =
       [swapPage EXCEPT
          !.quoting = TRUE,
          !.manualFetches = @ \cup {swapPage.inputs}]
  /\ UNCHANGED operationVars

\* part_002 320-332: fetchQuote of the button settles; the result is stored,
\* an error leaves the quote as it is.
SwapPage_ManualFetchSettles(inputs, ok) ==
  /\ inputs \in swapPage.manualFetches
  /\ swapPage' =
       [swapPage EXCEPT
          !.manualFetches = @ \ {inputs},
          !.quote = IF ok THEN PageQuote(inputs) ELSE @,
          !.quoting = FALSE]
  /\ UNCHANGED operationVars

(***************************************************************************)
(* The network mines the sender's next pending transaction.                *)
(***************************************************************************)
Mine(chain) ==
  /\ txCount[chain] \in pending[chain]
  /\ txCount' = [txCount EXCEPT ![chain] = @ + 1]
  /\ pending' = [pending EXCEPT ![chain] = @ \ {txCount[chain]}]
  /\ UNCHANGED << otherLocals, wallet, walletChain, op, pc, network, swapLocals,
                  balance,
                  tx, fees, signature, error, status, signLog, sendLog >>

Init ==
  /\ wallet \in Wallets
  /\ walletChain \in ChainIds
  /\ txCount = [c \in ChainIds |-> 0]
  /\ pending = [c \in ChainIds |-> {}]
  /\ op = [p \in Callers |-> "none"]
  /\ pc = [p \in Callers |-> "idle"]
  /\ network = [p \in Callers |-> "mainnet"]
  /\ params = [p \in Callers |-> NoParams]
  /\ quote = [p \in Callers |-> NoQuote]
  /\ allowance = [p \in Callers |-> NoAllowance]
  /\ nextNonce = [p \in Callers |-> 0]
  /\ callData = [p \in Callers |-> ""]
  /\ headers = [p \in Callers |-> << >>]
  /\ receipt = [p \in Callers |-> "none"]
  /\ rejection = [p \in Callers |-> NoNodeError]
  /\ swapPage = SwapPageMounted
  /\ balance = [p \in Callers |-> 0]
  /\ tx = [p \in Callers |-> NoTx]
  /\ fees = [p \in Callers |-> NoFees]
  /\ signature = [p \in Callers |-> NoSignature]
  /\ error = [p \in Callers |-> ""]
  /\ status = [p \in Callers |-> "none"]
  /\ signLog = [p \in Callers |-> << >>]
  /\ sendLog = [p \in Callers |-> << >>]

\* Recipients a caller passes: a well-formed address and a malformed string.
Recipients == {Addr("R", "checksum"), Malformed}

TransferTo(p, recipients) ==
  \/ \E net \in Networks, recipient \in recipients :
       Transfer_Start(p, net, recipient)
  \/ Transfer_SwitchChain(p)
  \/ Transfer_CheckChain(p)
  \/ Transfer_GetBalance(p)
  \/ Transfer_Prepare(p)
  \/ Transfer_Sign(p)
  \/ Transfer_Assemble(p)
  \/ Transfer_Send(p)

Transfer(p) == TransferTo(p, Recipients)

Next ==
  \/ Transfer("page")
  \/ Swap("page")
  \/ Bridge("page")
  \/ Payment("page")
  \/ \E chain \in ChainIds : Mine(chain)

Spec == Init /\ [][Next]_vars

NextConcurrent ==
  \/ \E p \in Callers : TransferTo(p, {Addr("R", "checksum")})
  \/ \E chain \in ChainIds : Mine(chain)

SpecConcurrent == Init /\ [][NextConcurrent]_vars

(***************************************************************************)
(* The quote arithmetic on its own: the two swap functions up to their     *)
(* quote, over a wider range of slippage tolerances and quoted amounts.    *)
(* Slippages are in thousandths of a percent: 0%, 0.001%, 0.5%, 1%, 50%,   *)
(* 100%.                                                                   *)
(***************************************************************************)
MaxQuoteAmountOut == 12
QuoteAmountsOut == 0..MaxQuoteAmountOut \cup {10000, 10001}
QuoteSlippages == {0, 1, 500, 1000, 50000, 100000}

NextQuote ==
  \/ \E toToken \in ToTokens \ {NATIVE_TOKEN}, slippage \in QuoteSlippages,
        net \in Networks :
       SwapCRO_Start("page", toToken, slippage, net)
  \/ \E fromToken \in FromTokens, toToken \in ToTokens,
        slippage \in QuoteSlippages, net \in Networks :
       SwapToken_Start("page", fromToken, toToken, slippage, net)
  \/ Swap_SwitchChain("page")
  \/ \E amountOut \in QuoteAmountsOut : SwapCRO_Quote("page", amountOut)
  \/ \E amountOut \in QuoteAmountsOut : SwapToken_Quote("page", amountOut)

SpecQuote == Init /\ [][NextQuote]_vars

(***************************************************************************)
(* The quote display of the swap page alone.                               *)
(***************************************************************************)
NextSwapPage ==
  \/ \E inputs \in PageInputs : SwapPage_ChangeInput(inputs)
  \/ SwapPage_TimerFires
  \/ \E f \in swapPage.autoFetches, ok \in BOOLEAN : SwapPage_AutoFetchSettles(f, ok)
  \/ SwapPage_GetQuote
  \/ \E inputs \in swapPage.manualFetches, ok \in BOOLEAN :
       SwapPage_ManualFetchSettles(inputs, ok)

SpecSwapPage == Init /\ [][NextSwapPage]_vars

(***************************************************************************)
(* Properties                                                              *)
(***************************************************************************)
\* The EIP-155 v values of the two recovery ids on a chain.
ValidV(chainId) == {chainId * 2 + 35, chainId * 2 + 36}

\* C1: every transaction handed to sendRawTransaction carries a signature
\* whose recovered signer equals the wallet's address, compared without
\* regard to letter case; a mismatching signature is never broadcast.
C1_BroadcastOnlyVerifiedSigner ==
  \A p \in Callers : \A i \in DOMAIN sendLog[p] :
    ~SignerMismatch(Addr(sendLog[p][i].signer, "checksum"), wallet.address)

\* C1, reached: a swap transaction signed by a key other than the wallet's
\* was handed to sendRawTransaction and accepted.
C1_SwapBroadcastForeignSigner ==
  \E p \in Callers : \E i \in DOMAIN sendLog[p] :
    /\ op[p] \in {"swapCRO", "swapToken"}
    /\ sendLog[p][i].signer = "X" /\ wallet.address.id = "W"
    /\ sendLog[p][i].accepted

\* C2: in every signing path, the step that takes a full-length signature
\* whose recovery marker is not 0, 1, 27 or 28 ends the operation in failure,
\* and no sendRawTransaction call ever carries a v built from such a marker.
C2_InvalidMarkerIsFatal ==
  [][\A p \in Callers :
       /\ ( /\ pc[p] \in {"assemble", "assembleApprove"}
            /\ pc'[p] # pc[p]
            /\ ~signature[p].short
            /\ signature[p].byte \notin {0, 1, 27, 28} )
          => (pc'[p] = "done" /\ status'[p] = "failed")
       /\ \A i \in DOMAIN sendLog'[p] :
            sendLog'[p][i].v \in ValidV(sendLog'[p][i].chainId)]_vars

\* C2, reached: a swap transaction built from a signature with marker 29 was
\* handed to sendRawTransaction with v = 2 + chainId * 2 + 35.
C2_Marker29Broadcast ==
  \E p \in Callers : \E i \in DOMAIN sendLog[p] :
    /\ op[p] \in {"swapCRO", "swapToken"}
    /\ sendLog[p][i].v = 2 + sendLog[p][i].chainId * 2 + 35

\* C3: a step that attaches a signature with marker b in {0, 1, 27, 28} to a
\* transaction (to be broadcast, or to be placed in the x402 header) uses
\* recovery id b - 27 for 27 and 28 and b otherwise, leaves the chain id of
\* the unsigned transaction, which is the configured id of the network (25
\* mainnet, 338 testnet), in place, and sets v = recoveryId + chainId*2 + 35.
C3_RecoveryIdAndV ==
  [][\A p \in Callers :
       LET b == signature[p].byte
           rid == IF b \in {27, 28} THEN b - 27 ELSE b
           cid == IF network[p] = "testnet" THEN 338 ELSE 25
           raw == headers'[p][Len(headers'[p])].json.payload.rawTransaction
       IN /\ ( /\ pc[p] \in {"assemble", "assembleApprove"}
               /\ pc'[p] \in {"send", "sendApprove"}
               /\ b \in {0, 1, 27, 28} )
             => /\ tx[p].chainId = cid
                /\ tx'[p].chainId = cid
                /\ tx'[p].v = rid + cid * 2 + 35
          /\ ( /\ op[p] = "payment" /\ pc[p] = "assemble"
               /\ Len(headers'[p]) > Len(headers[p]) )
             => /\ b \in {0, 1, 27, 28}
                /\ tx[p].chainId = cid
                /\ raw.chainId = cid
                /\ raw.v = rid + cid * 2 + 35]_vars

\* C3, reached: a testnet transfer signed with marker 28 waits to be sent
\* with v = 1 + 338 * 2 + 35.
C3_Marker28OnTestnet ==
  \E p \in Callers :
    /\ op[p] = "transfer" /\ pc[p] = "send"
    /\ signature[p].byte = 28
    /\ tx[p].chainId = 338
    /\ tx[p].v = 1 + 338 * 2 + 35

\* C4: every secp256k1_sign request follows a pre-flight check and is made
\* while the wallet's active chain is the chain the transaction is built for.
C4_PreflightBeforeSigning ==
  \A p \in Callers : \A i \in DOMAIN signLog[p] :
    /\ signLog[p][i].preflight
    /\ signLog[p][i].activeChain = signLog[p][i].chainId

\* C4, reached: a swap requested a signature for a testnet transaction while
\* the wallet was on mainnet, and the signed transaction was broadcast.
C4_SwapSignedOnOtherChain ==
  \E p \in Callers :
    /\ op[p] \in {"swapCRO", "swapToken"}
    /\ Len(signLog[p]) >= 1 /\ Len(sendLog[p]) >= 1
    /\ signLog[p][1].chainId = 338 /\ signLog[p][1].activeChain = 25

\* C5: once transferCRO has done its funds check, it has failed with
\* insufficient funds, with no signing request and no broadcast call made,
\* exactly when balance < value + gas * gasPrice for the values of the
\* transaction; with balance equal to that sum it goes on to sign.
C5_FundsCheckBeforeSigning ==
  \A p \in Callers :
    ( /\ op[p] = "transfer" /\ tx[p].kind = "transfer"
      /\ pc[p] \in {"sign", "done"} )
    => LET totalCost == tx[p].value + tx[p].gas * tx[p].gasPrice
       IN IF balance[p] < totalCost
            THEN /\ pc[p] = "done" /\ status[p] = "failed"
                 /\ error[p] = "InsufficientFunds"
                 /\ signLog[p] = << >> /\ sendLog[p] = << >>
            ELSE pc[p] = "sign" /\ error[p] = ""

\* C5, reached: a transfer whose balance is exactly value + gas * gasPrice
\* has passed the check and is about to sign.
C5_ExactBalanceProceeds ==
  \E p \in Callers :
    /\ op[p] = "transfer" /\ pc[p] = "sign"
    /\ balance[p] = tx[p].value + tx[p].gas * tx[p].gasPrice

\* An Assembler+Broadcaster pass is in progress from the moment the
\* transaction's fields are fetched until the operation ends.
InPass(p) == tx[p].kind # "none" /\ pc[p] # "done"

\* C6: two invocations on one wallet never have a pass in progress at the
\* same time, and no two signing requests of different invocations are for
\* transactions with the same chain id and the same nonce.
C6_PassesSerialized ==
  \A p, q \in Callers :
    p # q =>
      /\ ~(InPass(p) /\ InPass(q))
      /\ \A i \in DOMAIN signLog[p], j \in DOMAIN signLog[q] :
           signLog[p][i].chainId = signLog[q][j].chainId
             => signLog[p][i].nonce # signLog[q][j].nonce

\* C6, reached: the chat handler and the transfer page each had a transfer
\* with the same chain id and nonce signed by the wallet and handed to
\* sendRawTransaction.
C6_SameNonceSignedTwice ==
  \E i \in DOMAIN sendLog["chat"], j \in DOMAIN sendLog["page"] :
    /\ sendLog["chat"][i].signer = "W" /\ sendLog["page"][j].signer = "W"
    /\ sendLog["chat"][i].chainId = sendLog["page"][j].chainId
    /\ sendLog["chat"][i].nonce = sendLog["page"][j].nonce

\* C7: in a token swap whose approval was accepted and whose swap call was
\* then handed to sendRawTransaction, the swap's nonce is the approval's nonce
\* plus 1; a swap transaction built without any approval broadcast carries
\* the 'latest' transaction count of the network.
C7_SwapNonceFollowsApproval ==
  \A p \in Callers :
    op[p] = "swapToken" =>
      /\ \A i, j \in DOMAIN sendLog[p] :
           ( /\ i < j
             /\ sendLog[p][i].kind = "approve" /\ sendLog[p][i].accepted
             /\ sendLog[p][j].kind = "swap" )
           => sendLog[p][j].nonce = sendLog[p][i].nonce + 1
      /\ (tx[p].kind = "swap" /\ sendLog[p] = << >>)
           => tx[p].nonce = LatestCount(getRpcUrl(network[p]))

\* C7, reached: approval broadcast with nonce 0, swap broadcast with nonce 1.
C7_ApprovalThenSwapBroadcast ==
  \E p \in Callers :
    /\ op[p] = "swapToken" /\ Len(sendLog[p]) = 2
    /\ sendLog[p][1].kind = "approve" /\ sendLog[p][1].accepted
    /\ sendLog[p][2].kind = "swap" /\ sendLog[p][2].accepted
    /\ sendLog[p][2].nonce = sendLog[p][1].nonce + 1

\* The operations that approve first and then make the swap or bridge call.
TwoStep(p) ==
  \/ op[p] = "bridge"
  \/ op[p] = "swapToken"
       /\ \E i \in DOMAIN signLog[p] : signLog[p][i].kind = "approve"

\* C8: in an operation of two sequential transactions, the step that gives
\* the second transaction its nonce takes place after the approval's
\* broadcast was accepted and reads that nonce from the network then.
C8_SecondNonceFetchedAfterFirstAccepted ==
  [][\A p \in Callers :
       ( /\ TwoStep(p)
         /\ tx[p].kind = "none"
         /\ tx'[p].kind \in {"swap", "bridge"} )
       => /\ \E i \in DOMAIN sendLog[p] :
               sendLog[p][i].kind = "approve" /\ sendLog[p][i].accepted
          /\ tx'[p].nonce = LatestCount(tx'[p].rpc)]_vars

\* C8, reached: executeBridge built its bridge transaction although the
\* approval's broadcast had been rejected.
C8_BridgeBuiltAfterRejectedApproval ==
  \E p \in Callers :
    /\ op[p] = "bridge" /\ tx[p].kind = "bridge"
    /\ Len(sendLog[p]) = 1
    /\ sendLog[p][1].kind = "approve" /\ ~sendLog[p][1].accepted

\* C9: once the quote step is over, call data that is empty or "0x" (which is
\* also what a failed quote API leaves) means the bridge operation has failed
\* with no signing request and no broadcast call, and no bridge transaction
\* with empty data is ever signed.
C9_EmptyCallDataFailsEarly ==
  \A p \in Callers :
    op[p] \in {"bridge", "bridgeNative"} =>
      /\ (pc[p] \notin {"idle", "getTransaction"} /\ EmptyCallData(callData[p]))
           => /\ pc[p] = "done" /\ status[p] = "failed"
              /\ signLog[p] = << >> /\ sendLog[p] = << >>
      /\ \A i \in DOMAIN signLog[p] :
           signLog[p][i].kind = "bridge" => ~EmptyCallData(signLog[p][i].data.fn)

\* C9, reached: after a failed quote request, a bridge transaction with data
\* "0x" was signed, handed to sendRawTransaction and accepted.
C9_EmptyDataBridgeBroadcast ==
  \E p \in Callers : \E i \in DOMAIN sendLog[p] :
    /\ op[p] \in {"bridge", "bridgeNative"}
    /\ callData[p] = "0x"
    /\ sendLog[p][i].kind = "bridge" /\ sendLog[p][i].accepted
    /\ sendLog[p][i].data.fn = "0x"

\* The invocation holds a quote: its getAmountsOut read has returned.
Quoted(p) ==
  /\ op[p] \in {"swapCRO", "swapToken"}
  /\ pc[p] \in {"build", "allowance"}

C11_MinOutNonIncreasingInSlippage ==
  \A p \in Callers :
    Quoted(p) =>
      \A s \in QuoteSlippages :
        /\ s > params[p].slippage
             => MinOut(quote[p].amountOut, s) <= quote[p].minOut
        /\ s < params[p].slippage
             => MinOut(quote[p].amountOut, s) >= quote[p].minOut

\* C11, reached: a quote of 10000 at 0.5% gives 9950, and 1% would give the
\* strictly lower 9900.
C11_LargerSlippageLowerMinOut ==
  \E p \in Callers :
    /\ Quoted(p)
    /\ params[p].slippage = 500
    /\ quote[p].amountOut = 10000
    /\ quote[p].minOut = 9950
    /\ MinOut(quote[p].amountOut, 1000) = 9900

\* The route shape of C12 for a swap from fromToken to toToken: 2 or 3
\* addresses, the first the source and the last the destination (the
\* wrapped-native token standing for a native side), and exactly
\* [wrappedNative, toToken] from native to a token.
RouteWellFormed(path, fromToken, toToken) ==
  LET wCRO == getAddress(WCRO)
      first == IF SameAddress(fromToken, NATIVE_TOKEN) THEN wCRO
               ELSE getAddress(fromToken)
      last == IF SameAddress(toToken, NATIVE_TOKEN) THEN wCRO
              ELSE getAddress(toToken)
  IN /\ Len(path) \in {2, 3}
     /\ path[1] = first
     /\ path[Len(path)] = last
     /\ (SameAddress(fromToken, NATIVE_TOKEN) /\ ~SameAddress(toToken, NATIVE_TOKEN))
          => path = << wCRO, getAddress(toToken) >>

\* C12: every route handed to the router, for the quote read and in the swap
\* call, is 2 or 3 addresses from the source token (wrapped native for a
\* native source) to the destination token, and exactly [wrappedNative,
\* toToken] for a native source and an ERC-20 destination.
C12_RouteShape ==
  \A p \in Callers :
    op[p] \in {"swapCRO", "swapToken"} =>
      /\ quote[p].path # << >>
           => RouteWellFormed(quote[p].path, params[p].fromToken, params[p].toToken)
      /\ (tx[p] # NoTx /\ tx[p].kind = "swap")
           => RouteWellFormed(tx[p].data.path, params[p].fromToken,
                              params[p].toToken)

\* C12, reached: a native swap to the wrapped-native token (an ERC-20) reads
\* the quote with a route of one address.
C12_OneAddressRoute ==
  \E p \in Callers :
    /\ op[p] = "swapCRO"
    /\ params[p].toToken = WCRO
    /\ quote[p].path = << getAddress(WCRO) >>
    /\ Len(quote[p].path) = 1

\* C13: the gas limit of a native transfer handed to signing, signed or about
\* to be broadcast is never below 21000, whatever gas the prepared request
\* carried.
C13_TransferGasAtLeast21000 ==
  \A p \in Callers :
    (op[p] = "transfer" /\ pc[p] \in {"sign", "assemble", "send"})
      => tx[p].gas >= 21000

\* C13, reached: the prepared request carried gas 20000 and the signed
\* transfer about to be broadcast has gas limit 20000.
C13_SignedTransferBelow21000 ==
  \E p \in Callers :
    /\ op[p] = "transfer" /\ pc[p] = "send"
    /\ signature[p] # NoSignature
    /\ tx[p].signer = "W"
    /\ fees[p].gas = 20000
    /\ tx[p].gas = 20000

\* The minimum gas limit per call type that C14 and C15 name.
GasFloor(o, kind) ==
  IF kind = "transfer" THEN 21000
  ELSE IF kind = "approve" THEN 100000
  ELSE IF kind = "swap" /\ o = "swapCRO" THEN 250000
  ELSE 300000

\* A transaction of Transfer, Swap or Bridge that is built and on its way to
\* the signer or the node.
Built(p) ==
  /\ op[p] \in {"transfer", "swapCRO", "swapToken", "bridge", "bridgeNative"}
  /\ pc[p] \in {"sign", "signApprove", "assemble", "assembleApprove", "send",
                "sendApprove"}
  /\ tx[p] # NoTx

\* C14: when the gas simulation for a transaction succeeded, its gas limit is
\* max(2 * estimate, floor) with the floor of its call type, for every
\* transaction built by Transfer, Swap and Bridge.
C14_GasIsTwiceEstimateFloored ==
  \A p \in Callers :
    (Built(p) /\ fees[p].estimate = "ok")
      => tx[p].gas = Max(2 * fees[p].gas, GasFloor(op[p], tx[p].kind))

\* C14, reached: the prepared transfer carried a gas estimate of 21000 and the
\* signed transfer has gas limit 21000, not 42000.
C14_TransferGasIsEstimateItself ==
  \E p \in Callers :
    /\ op[p] = "transfer" /\ pc[p] = "send"
    /\ fees[p].estimate = "ok"
    /\ fees[p].gas = 21000
    /\ tx[p].gas = 21000
    /\ tx[p].gas # Max(2 * fees[p].gas, GasFloor(op[p], tx[p].kind))

\* C15: when the gas simulation for a swap or approval threw, the operation
\* goes on to signing and broadcast with the gas limit equal to the floor of
\* the call type (100000 approval, 250000 native-to-token swap, 300000 token
\* swap).
C15_FailedEstimateUsesFloor ==
  \A p \in Callers :
    (Built(p) /\ fees[p].estimate = "failed")
      => /\ error[p] = ""
         /\ tx[p].gas = GasFloor(op[p], tx[p].kind)

\* C15, reached: estimateGas threw for a native-to-token swap and the signed
\* swap about to be broadcast has gas limit 300000, above the floor 250000.
C15_FailedEstimateAboveFloor ==
  \E p \in Callers :
    /\ op[p] = "swapCRO" /\ pc[p] = "send"
    /\ error[p] = ""
    /\ fees[p].estimate = "failed"
    /\ tx[p].gas = 300000
    /\ GasFloor(op[p], tx[p].kind) = 250000

\* C16: the gas price of every transaction handed to signing, signed or about
\* to be broadcast equals what the network's gas-price query answered in that
\* invocation.
C16_GasPriceIsNetworkGasPrice ==
  \A p \in Callers :
    (tx[p] # NoTx /\ pc[p] \in {"sign", "signApprove", "assemble",
                                "assembleApprove", "send", "sendApprove"})
      => tx[p].gasPrice = fees[p].gasPrice

\* C16, reached: getGasPrice answered 1, the prepared request carried a gas
\* price of MaxGasPrice, and the signed transfer has gas price MaxGasPrice.
C16_PreparedGasPriceSubstituted ==
  \E p \in Callers :
    /\ op[p] = "transfer" /\ pc[p] = "send"
    /\ signature[p] # NoSignature
    /\ fees[p].gasPrice = 1
    /\ tx[p].gasPrice = MaxGasPrice
    /\ MaxGasPrice > 1

\* C17: handlePayment never calls sendRawTransaction; a run hands over a
\* header exactly when it succeeds, and then exactly one; the header is the
\* base64 encoding of {x402Version: 1, scheme, network, payload:
\* {rawTransaction}} where rawTransaction is the fully signed payment whose
\* signer is the wallet's address and network names the chain it was signed
\* for.
C17_PaymentHeaderNeverBroadcast ==
  \A p \in Callers :
    op[p] = "payment" =>
      /\ sendLog[p] = << >>
      /\ Len(headers[p]) <= 1
      /\ Len(headers[p]) = 1 <=> status[p] = "header"
      /\ \A i \in 1..Len(headers[p]) :
           LET header == headers[p][i]
               raw == header.json.payload.rawTransaction
           IN /\ header.encoding = "base64"
              /\ DOMAIN header.json = {"x402Version", "scheme", "network", "payload"}
              /\ header.json.x402Version = 1
              /\ header.json.scheme = "exact"
              /\ DOMAIN header.json.payload = {"rawTransaction"}
              /\ raw.kind = "payment"
              /\ raw.v \in ValidV(raw.chainId)
              /\ ~SignerMismatch(Addr(raw.signer, "checksum"), wallet.address)
              /\ raw.signer = "W"
              /\ Len(signLog[p]) = 1
              /\ signLog[p][1].chainId = raw.chainId
              /\ signLog[p][1].nonce = raw.nonce
              /\ \/ header.json.network = "cronos"
                    /\ raw.chainId = CRONOS_MAINNET_CHAIN_ID
                 \/ header.json.network = "cronos-testnet"
                    /\ raw.chainId = CRONOS_TESTNET_CHAIN_ID

\* C17, reached: a testnet payment run ended with its one header, nothing
\* broadcast.
C17_TestnetHeaderHandedOver ==
  \E p \in Callers :
    /\ op[p] = "payment" /\ pc[p] = "done" /\ status[p] = "header"
    /\ Len(headers[p]) = 1
    /\ headers[p][1].json.network = "cronos-testnet"
    /\ headers[p][1].json.payload.rawTransaction.chainId = CRONOS_TESTNET_CHAIN_ID
    /\ sendLog[p] = << >>

\* C18: Swap and Bridge hand a transaction to sendRawTransaction only when
\* the native balance fetched in the invocation (balance, 0 when getBalance
\* was never called) covers value + gasLimit * gasPrice; otherwise they fail
\* with an insufficient-funds error before the call.
C18_SwapBridgeFundsCheckBeforeBroadcast ==
  [][\A p \in Callers :
       ( /\ op[p] \in {"swapCRO", "swapToken", "bridge", "bridgeNative"}
         /\ Len(sendLog'[p]) > Len(sendLog[p]) )
         => ~InsufficientFunds(balance[p], tx[p].value, tx[p].gas,
                               tx[p].gasPrice)]_vars

\* C18, reached: a native swap of AmountWei was taken by the node although
\* the invocation never fetched a balance and raised no insufficient-funds
\* error.
C18_SwapBroadcastWithoutBalance ==
  \E p \in Callers :
    /\ op[p] = "swapCRO" /\ pc[p] = "done"
    /\ Len(sendLog[p]) = 1
    /\ sendLog[p][1].kind = "swap"
    /\ sendLog[p][1].accepted
    /\ balance[p] = 0
    /\ error[p] = ""

\* The caller passed a malformed address: Transfer's recipient or one of
\* Swap's token addresses.
MalformedInput(p) ==
  \/ op[p] = "transfer" /\ ~isAddress(params[p].recipient)
  \/ op[p] = "swapCRO" /\ ~isAddress(params[p].toToken)
  \/ /\ op[p] = "swapToken"
     /\ ~isAddress(params[p].fromToken) \/ ~isAddress(params[p].toToken)

\* C19: an invocation given a malformed address fails in its first step,
\* before the provider lookup, switchChain, any RPC read or any signing: the
\* only step it ever takes leads from the entry to a failed end.
C19_MalformedInputFailsFirst ==
  [][\A p \in Callers :
       (MalformedInput(p)' /\ pc'[p] # pc[p])
         => /\ pc[p] = "idle"
            /\ pc'[p] = "done"
            /\ status'[p] = "failed"
            /\ walletChain' = walletChain
            /\ signLog'[p] = << >>]_vars

\* C19, reached: a transfer to a malformed recipient has switched the
\* wallet's chain, read eth_chainId and fetched the balance, and is about to
\* prepare the transaction.
C19_MalformedRecipientReachesPrepare ==
  \E p \in Callers :
    /\ op[p] = "transfer" /\ pc[p] = "prepare"
    /\ params[p].recipient = Malformed
    /\ walletChain = getChainId(network[p])
    /\ balance[p] > 0

\* A step of the invocation has raised: a broadcast was refused, or a signing
\* request was made that led to no broadcast and is no longer in progress.
Raised(p) ==
  \/ \E i \in DOMAIN sendLog[p] : ~sendLog[p][i].accepted
  \/ /\ Len(signLog[p]) > Len(sendLog[p])
     /\ pc[p] \notin {"assemble", "assembleApprove", "send", "sendApprove"}
  \/ error[p] # ""

\* C20: no retry.  An invocation of Transfer broadcasts at most 1 transaction
\* and one of Swap or Bridge at most 2, no transaction is handed to
\* sendRawTransaction twice, and once a step has raised the invocation is at
\* its failed end and makes no further signing request and no further
\* broadcast.
C20_NoRetryAfterFailure ==
  [][\A p \in Callers :
       op[p] \in {"transfer", "swapCRO", "swapToken", "bridge", "bridgeNative"}
         => /\ Len(sendLog'[p]) <= IF op[p] = "transfer" THEN 1 ELSE 2
            /\ \A i, j \in DOMAIN sendLog'[p] :
                 (i # j) => sendLog'[p][i].kind # sendLog'[p][j].kind
            /\ Raised(p)
                 => /\ pc[p] = "done" /\ status[p] = "failed"
                    /\ signLog'[p] = signLog[p]
                    /\ sendLog'[p] = sendLog[p]]_vars

\* C20, reached: the node refused the approval of executeBridge, and the same
\* invocation then signed and broadcast the bridge transaction.
C20_BridgeSentAfterApprovalRaised ==
  \E p \in Callers :
    /\ op[p] = "bridge"
    /\ Len(sendLog[p]) = 2 /\ Len(signLog[p]) = 2
    /\ sendLog[p][1].kind = "approve" /\ ~sendLog[p][1].accepted
    /\ sendLog[p][2].kind = "bridge" /\ sendLog[p][2].accepted

\* The approval of the invocation has failed: it was handed to the signer and
\* is no longer in progress, and no broadcast of it was accepted.
ApprovalFailed(p) ==
  /\ \E i \in DOMAIN signLog[p] : signLog[p][i].kind = "approve"
  /\ ~\E i \in DOMAIN sendLog[p] :
        sendLog[p][i].kind = "approve" /\ sendLog[p][i].accepted
  /\ ~(tx[p].kind = "approve")

\* C21: when signing or broadcasting the approval failed, or its signature
\* was invalid, the operation has ended in failure and the main swap or
\* bridge transaction is neither built for signing, signed nor broadcast.
C21_ApprovalFailureIsTerminal ==
  \A p \in Callers :
    (op[p] \in {"swapToken", "bridge"} /\ ApprovalFailed(p))
      => /\ pc[p] = "done" /\ status[p] = "failed"
         /\ tx[p].kind \notin {"swap", "bridge"}
         /\ \A i \in DOMAIN signLog[p] : signLog[p][i].kind = "approve"
         /\ \A i \in DOMAIN sendLog[p] : sendLog[p][i].kind = "approve"

\* C21, reached: in executeBridge the approval was handed to the signer and
\* never broadcast (the signer refused or the signature was unusable), and
\* the bridge transaction was signed afterwards.
C21_BridgeSignedAfterApprovalSignFailed ==
  \E p \in Callers :
    /\ op[p] = "bridge"
    /\ Len(signLog[p]) = 2
    /\ signLog[p][1].kind = "approve"
    /\ signLog[p][2].kind = "bridge"
    /\ \A i \in DOMAIN sendLog[p] : sendLog[p][i].kind # "approve"

\* C22: a bridge invocation has status 'success' only when the wait for the
\* receipt of its accepted, mined bridge transaction ended with a receipt of
\* status success; a receipt reporting failure or a wait that timed out ends
\* the invocation with an error; a bridge never returns 'pending'.  Transfer
\* and Swap return 'pending' once the node accepted the broadcast, without
\* waiting for a receipt, and never return 'success'.
C22_SuccessOnlyAfterSuccessfulReceipt ==
  \A p \in Callers :
    LET last == sendLog[p][Len(sendLog[p])]
    IN /\ op[p] \in {"bridge", "bridgeNative"} =>
            /\ status[p] \in {"none", "failed", "success"}
            /\ status[p] = "success" =>
                 /\ receipt[p] = "success"
                 /\ Len(sendLog[p]) >= 1
                 /\ last.kind = "bridge" /\ last.accepted /\ Mined(last)
            /\ receipt[p] \in {"reverted", "timeout"} =>
                 /\ pc[p] = "done" /\ status[p] = "failed"
                 /\ error[p] \in {"BridgeFailedOnChain", "ReceiptTimeout"}
       /\ op[p] \in {"transfer", "swapCRO", "swapToken"} =>
            /\ status[p] \in {"none", "failed", "pending"}
            /\ receipt[p] = "none"
            /\ status[p] = "pending" =>
                 /\ pc[p] = "done"
                 /\ Len(sendLog[p]) >= 1
                 /\ last.kind \in {"transfer", "swap"} /\ last.accepted

\* C22, reached: executeBridgeNative returned 'success' after the receipt of
\* its mined bridge transaction reported success.
C22_NativeBridgeConfirmed ==
  \E p \in Callers :
    /\ op[p] = "bridgeNative" /\ pc[p] = "done"
    /\ status[p] = "success"
    /\ receipt[p] = "success"
    /\ Len(sendLog[p]) = 1
    /\ sendLog[p][1].kind = "bridge" /\ sendLog[p][1].accepted
    /\ Mined(sendLog[p][1])

\* The invocation handed a transaction of the given kind to the signer or to
\* the node.
Handled(p, kind) ==
  \/ \E i \in DOMAIN signLog[p] : signLog[p][i].kind = kind
  \/ \E i \in DOMAIN sendLog[p] : sendLog[p][i].kind = kind

\* C23: a swap broadcasts an approve transaction only when its source is a
\* token and the router allowance read in that invocation is below amountIn,
\* and in that case the swap call is built only after the node accepted the
\* approval; a swap from the native currency never reads an allowance and
\* never signs or broadcasts an approval; when the allowance read covers
\* amountIn no approval is signed or broadcast and the only broadcast is the
\* swap call, exactly one once the invocation has returned.
C23_ApproveIffAllowanceInsufficient ==
  \A p \in Callers :
    /\ op[p] = "swapCRO" =>
         ~allowance[p].read /\ ~Handled(p, "approve") /\ tx[p].kind # "approve"
    /\ op[p] = "swapToken" =>
         /\ (Handled(p, "approve") \/ tx[p].kind = "approve")
              => allowance[p].read /\ allowance[p].value < AmountWei
         /\ (allowance[p].read /\ allowance[p].value < AmountWei
               /\ (Handled(p, "swap") \/ tx[p].kind = "swap"))
              => \E i \in DOMAIN sendLog[p] :
                    sendLog[p][i].kind = "approve" /\ sendLog[p][i].accepted
         /\ (allowance[p].read /\ allowance[p].value >= AmountWei)
              => /\ Len(sendLog[p]) <= 1
                 /\ \A i \in DOMAIN sendLog[p] : sendLog[p][i].kind = "swap"
                 /\ status[p] = "pending" => Len(sendLog[p]) = 1

\* C23, reached: a token swap read an allowance covering amountIn and
\* returned after one accepted broadcast, the swap call.
C23_SufficientAllowanceOneBroadcast ==
  \E p \in Callers :
    /\ op[p] = "swapToken"
    /\ allowance[p].read /\ allowance[p].value >= AmountWei
    /\ status[p] = "pending"
    /\ Len(sendLog[p]) = 1
    /\ sendLog[p][1].kind = "swap" /\ sendLog[p][1].accepted

\* C24: the token bridge hands an approve transaction to the signer or to the
\* node only after it read the bridge contract's allowance in that
\* invocation and found it below the amount.
C24_BridgeApprovesOnlyWhenAllowanceShort ==
  \A p \in Callers :
    (op[p] = "bridge" /\ (Handled(p, "approve") \/ tx[p].kind = "approve"))
      => allowance[p].read /\ allowance[p].value < AmountWei

\* C24, reached: executeBridge broadcast an approve transaction that the node
\* accepted, and no allowance was read in the invocation.
C24_BridgeApprovedWithoutAllowanceRead ==
  \E p \in Callers :
    /\ op[p] = "bridge"
    /\ ~allowance[p].read
    /\ \E i \in DOMAIN sendLog[p] :
         sendLog[p][i].kind = "approve" /\ sendLog[p][i].accepted

\* C25: when the node rejected the broadcast of transferCRO, the error raised
\* follows the node's error: insufficient funds for a rejection whose message
\* says so, a nonce error for one whose message mentions the nonce, a network
\* error for one that mentions the network, a generic failure otherwise; a
\* rejection that mentions the nonce is never raised as insufficient funds.
C25_RejectionClassifiedByMessage ==
  \A p \in Callers :
    (op[p] = "transfer" /\ rejection[p] # NoNodeError) =>
      error[p] =
        IF includes(rejection[p].message, "insufficient funds")
          THEN "InsufficientFundsRejected"
        ELSE IF includes(rejection[p].message, "nonce") THEN "NonceError"
        ELSE IF includes(rejection[p].message, "network") THEN "NetworkError"
        ELSE "TransactionFailed"

\* C25, reached: the node rejected the transfer with code -32000 and the
\* message "nonce too low", and transferCRO raised insufficient funds.
C25_NonceRejectionReportedAsInsufficientFunds ==
  \E p \in Callers :
    /\ op[p] = "transfer"
    /\ rejection[p] = [code |-> -32000, message |-> "nonce too low"]
    /\ error[p] = "InsufficientFundsRejected"
    /\ ~sendLog[p][Len(sendLog[p])].accepted

\* C26: in executeBridge an approval that was broadcast and a bridge
\* transaction broadcast after it in the same invocation carry different
\* nonces.
C26_ApprovalAndBridgeNoncesDiffer ==
  \A p \in Callers :
    op[p] = "bridge" =>
      \A i, j \in DOMAIN sendLog[p] :
        (i < j /\ sendLog[p][i].kind = "approve" /\ sendLog[p][i].accepted
           /\ sendLog[p][j].kind = "bridge")
          => sendLog[p][i].nonce # sendLog[p][j].nonce

\* C26, reached: the node accepted the approval, the wait for its receipt
\* ended while it was still unmined, and executeBridge broadcast the bridge
\* transaction with the approval's nonce.
C26_BridgeBroadcastWithApprovalNonce ==
  \E p \in Callers :
    /\ op[p] = "bridge"
    /\ Len(sendLog[p]) = 2
    /\ sendLog[p][1].kind = "approve" /\ sendLog[p][1].accepted
    /\ sendLog[p][2].kind = "bridge"
    /\ sendLog[p][2].nonce = sendLog[p][1].nonce
    /\ ~Mined(sendLog[p][1])

\* C27: the network whose node answered the nonce and gas price reads of a
\* transaction is the network whose chain id the transaction is serialized
\* and signed for, in every operation and on both networks.
C27_NonceReadOnSignedChain ==
  \A p \in Callers :
    tx[p].kind # "none" => tx[p].rpc = tx[p].chainId

\* C27, reached: the payment modal, with requirements naming the test
\* network, asked the signer to sign a transaction for chain 338 whose nonce
\* and gas price were read from the mainnet endpoint.
C27_TestnetPaymentBuiltFromMainnet ==
  \E p \in Callers :
    /\ op[p] = "payment"
    /\ network[p] = "testnet"
    /\ tx[p].kind = "payment"
    /\ tx[p].chainId = CRONOS_TESTNET_CHAIN_ID
    /\ tx[p].rpc = CRONOS_MAINNET_CHAIN_ID
    /\ Len(signLog[p]) = 1

\* The route names the native placeholder, or names one address twice.
RouteDegenerate(path) ==
  \/ \E i \in DOMAIN path : SameAddress(path[i], NATIVE_TOKEN)
  \/ \E i, j \in DOMAIN path : i # j /\ SameAddress(path[i], path[j])

\* C28: no route that the token swap hands to the router, for the quote read
\* or in the swap call, names the native placeholder address or names the
\* same address twice, whatever valid pair of tokens the function accepted.
C28_TokenRouteNeverDegenerate ==
  \A p \in Callers :
    op[p] = "swapToken" =>
      /\ ~RouteDegenerate(quote[p].path)
      /\ tx[p].kind = "swap" => ~RouteDegenerate(tx[p].data.path)

\* C28, reached: a token swap from the wrapped-native token to the native
\* placeholder handed the route [wCRO, wCRO] to the router's quote read.
C28_WrappedToNativeRouteRepeats ==
  \E p \in Callers :
    /\ op[p] = "swapToken"
    /\ SameAddress(params[p].fromToken, WCRO)
    /\ SameAddress(params[p].toToken, NATIVE_TOKEN)
    /\ quote[p].path = << getAddress(WCRO), getAddress(WCRO) >>
    /\ error[p] = "QuoteFailed"

\* C29: with a wallet whose walletClientType is set and is not 'privy', or a
\* wallet without an address, an invocation of transferCRO, swapCROManual,
\* swapTokenManual, executeBridge or executeBridgeNative makes no
\* secp256k1_sign request and no broadcast and never reaches a switchChain
\* call: it ends in failure, a bridge started from its page after at most
\* the quote request.
C29_SilentSigningOnlyWithEmbeddedWallet ==
  \A p \in Callers :
    (/\ op[p] \in {"transfer", "swapCRO", "swapToken", "bridge", "bridgeNative"}
     /\ \/ wallet.walletClientType \notin {"", "privy"}
        \/ wallet.address = NoAddress)
      => /\ signLog[p] = << >>
         /\ sendLog[p] = << >>
         /\ tx[p] = NoTx
         /\ IF op[p] \in {"bridge", "bridgeNative"}
              THEN pc[p] \in {"getTransaction", "enter", "done"}
              ELSE pc[p] = "done"
         /\ pc[p] = "done" => status[p] = "failed"

\* C29, reached: executeBridge, handed an external wallet with an address,
\* asked the wallet's provider for a secp256k1_sign signature.
C29_BridgeSignsWithExternalWallet ==
  \E p \in Callers :
    /\ op[p] = "bridge"
    /\ wallet.walletClientType = "metamask"
    /\ wallet.address # NoAddress
    /\ Len(signLog[p]) >= 1

\* C30: whenever the swap page shows a quote, the quote was computed from the
\* amount and slippage the page holds now; a result of fetchQuote for earlier
\* inputs is never stored, from the auto-refresh or from the Get Quote
\* button.
C30_DisplayedQuoteIsCurrent ==
  swapPage.quote.shown => swapPage.quote.inputs = swapPage.inputs

\* C30, reached: Get Quote was clicked for amount "1", the amount was changed
\* to "2" while the fetch was in flight, and the page shows the quote for
\* amount "1".
C30_StaleQuoteFromGetQuote ==
  /\ swapPage.quote.shown
  /\ swapPage.quote.inputs.amount = "1"
  /\ swapPage.inputs.amount = "2"
  /\ swapPage.autoFetches = {}

====
